---- MODULE Spec2Model ----
(***************************************************************************)
(* A state-machine model of the Zena conversational-assistant backend.     *)
(*                                                                         *)
(* Part 1: the in-process graph registry (src/src/graphs/registry.py)      *)
(* with the graph factory it is given (src/src/graphs/factory.py).         *)
(***************************************************************************)
EXTENDS Integers, Sequences, FiniteSets, TLC

(***************************************************************************)
(* Bounds of the model.                                                    *)
(***************************************************************************)
\* number of aget_or_create invocations (tasks) the event loop runs,
\* numbered in the order in which they are made
NumCalls == 3
\* the wall clock runs from 0 to MaxTime
MaxTime == 4

Calls == 1..NumCalls
\* registry keys: persona names given to _make_graph
Keys == {"sofia", "alena"}
\* values of GRAPH_CACHE_TTL_S, in ticks (0: never expires)
Ttls == {0, 1}
\* None of Python, for a graph and for a timestamp
NoGraph == 0
NoTime == -1

VARIABLES
    settings,   \* get_settings(): read once, the same for the whole process
    now,        \* time.time(), in whole ticks
    items,      \* GraphRegistry._items: key -> [graph, initialized_at]
    locks,      \* GraphEntry.lock per key: [locked, waiters]
    rpc,        \* position of each aget_or_create invocation
    call,       \* the key it was given
    seen,       \* entry.graph at the moment the invocation began
    seenAge,    \* _age_s(entry) at the moment the invocation began
    invoked,    \* whether the invocation has called factory()
    result      \* the graph the invocation returned

regVars == <<settings, now, items, locks, rpc, call, seen, seenAge, invoked, result>>

VARIABLES
    data,           \* request.state["data"], the business-data bag
    tools_result,   \* request.state["tools_result"]
    lastCall        \* the last tool call: what the handler gave, what was done with it

toolVars == <<data, tools_result, lastCall>>

VARIABLES
    messages,           \* state["messages"]: [type, content]
    context,            \* runtime.context
    user_companychat,   \* state["user_companychat"]
    step,               \* the hook the run is at, "agent", "end", or "raised"
    deps                \* the dependency calls of the run, with their outcomes

beforeVars == <<messages, context, user_companychat, step, deps>>

VARIABLES
    request             \* the ModelRequest of a model call: [tools, model]

selVars == <<request>>

VARIABLES
    peak,               \* the highest onboarding_stage the thread's bag has held
    turns,              \* the runs of the agent on the thread so far
    answered            \* the model's answers without tool calls on the thread so far

onbVars == <<peak, turns, answered>>

VARIABLES
    trimmed_from        \* state["messages"] as the last TrimMessages hook found it

trimVars == <<trimmed_from>>

VARIABLES
    clock,      \* time.time() of the masters cache, in seconds
    redis_up,   \* the cache service answers
    _redis,     \* the module's client: set once a ping has succeeded
    kv,         \* data and meta of the channel, in Redis and in _mem_kv
    masters_lock, \* lock:masters:{channel_id} in Redis, and _mem_lock
    origin,     \* the roster service: the roster it serves
    lookups,    \* the calls of fetch_masters_info
    refresh     \* the background task each call created, if any

cacheVars == <<clock, redis_up, _redis, kv, masters_lock, origin, lookups, refresh>>

VARIABLES
    _instance,      \* zena_resources._instance: the call that built it, or none
    res_lock,       \* zena_resources._lock: the call that holds it, or none
    models_reg,     \* zena_models._registry: its _models and its _http
    resources,      \* the objects each call's attempt created, and their state
    performed,      \* how many times each bring-up step has built its object
    inits           \* the calls of init_resources

resVars == <<_instance, res_lock, models_reg, resources, performed, inits>>

VARIABLES
    retry,          \* a call of a function wrapped by retry_async
    mcp             \* a call of _get_tools_safe, with the settings it runs under

loopVars == <<retry, mcp>>

VARIABLES
    tools_args,     \* state["tools_args"]
    tools_name,     \* state["tools_name"]
    tokens          \* state["tokens"]

accVars == <<tools_args, tools_name, tokens>>

VARIABLES
    doc_clock,      \* time.time() of the template reader, in ticks
    _CACHE,         \* GoogleDocTemplateReader._CACHE[doc_id], or none
    drive,          \* the document at Google Drive: the version it is at
    reading         \* the call of read_text in progress

docVars == <<doc_clock, _CACHE, drive, reading>>

VARIABLES
    closing         \* the calls of close_resources: the one in progress, and how many began

closeVars == <<closing>>

notCacheVars == <<regVars, toolVars, beforeVars, selVars, onbVars, trimVars, resVars, loopVars, accVars, docVars, closeVars>>
vars == <<regVars, toolVars, beforeVars, selVars, onbVars, trimVars, cacheVars, resVars, loopVars, accVars, docVars, closeVars>>

\* the variables the template reader leaves alone
notDocVars == <<regVars, toolVars, beforeVars, selVars, onbVars, trimVars, cacheVars, resVars, loopVars, accVars, closeVars>>
\* the variables neither init_resources nor close_resources touches
notCloseVars == <<regVars, toolVars, beforeVars, selVars, onbVars, trimVars, cacheVars, loopVars, accVars, docVars>>
\* the variables a retried call leaves alone
notLoopVars == <<regVars, toolVars, beforeVars, selVars, onbVars, trimVars, cacheVars, resVars, accVars, docVars, closeVars>>
\* the variables the bring-up of the resources leaves alone
notResVars == <<regVars, toolVars, beforeVars, selVars, onbVars, trimVars, cacheVars, loopVars, accVars, docVars, closeVars>>
\* the variables no step of a run of the agent touches
notAgentVars == <<cacheVars, resVars, loopVars, accVars, docVars, closeVars>>
\* the variables a step of the graph registry leaves alone
notRegVars == <<cacheVars, toolVars, beforeVars, selVars, onbVars, trimVars, resVars, loopVars, accVars, docVars, closeVars>>
\* the variables a step of the tool-result middleware leaves alone
notToolVars == <<cacheVars, regVars, beforeVars, selVars, onbVars, trimVars, resVars, loopVars, accVars, docVars, closeVars>>
\* the variables a before-agent hook leaves alone
notBeforeVars == <<cacheVars, regVars, tools_result, lastCall, selVars, onbVars, trimVars, resVars, loopVars, accVars, docVars, closeVars>>
\* the variables the tool selection leaves alone
notSelVars == <<cacheVars, regVars, toolVars, messages, context, user_companychat, deps, onbVars, trimVars, resVars, loopVars, accVars, docVars, closeVars>>

(***************************************************************************)
(* GraphRegistry                                                           *)
(***************************************************************************)
\* GraphEntry(lock=asyncio.Lock()): no graph, no timestamp
GraphEntry == [graph |-> NoGraph, initialized_at |-> NoTime]

\* _age_s: None before the first build, else now - initialized_at
AgeS(entry, t) ==
    IF entry.initialized_at = NoTime THEN NoTime ELSE t - entry.initialized_at

IsFresh_StrictAge(entry, ttl_s, t) ==
    IF ttl_s <= 0 THEN TRUE
    ELSE IF entry.initialized_at = NoTime THEN FALSE
    ELSE (t - entry.initialized_at) < ttl_s

IsFresh_ZeroTtlExpires(entry, ttl_s, t) ==
    entry.initialized_at /= NoTime /\ (t - entry.initialized_at) <= ttl_s

\* _is_fresh: ttl_s <= 0 never expires; otherwise age <= ttl_s
IsFresh(entry, ttl_s, t) ==
    IF ttl_s <= 0 THEN TRUE
    ELSE IF entry.initialized_at = NoTime THEN FALSE
    ELSE (t - entry.initialized_at) <= ttl_s

CacheHit_IgnoreForce(entry, ttl_s, force_reload, t) ==
    entry.graph /= NoGraph /\ IsFresh(entry, ttl_s, t)

\* the condition of the fast path and of the double-check under the lock
CacheHit(entry, ttl_s, force_reload, t) ==
    entry.graph /= NoGraph /\ ~force_reload /\ IsFresh(entry, ttl_s, t)

DoubleCheck_Skipped(entry, ttl_s, force_reload, t) == FALSE

\* the double-check under the lock: the fast-path condition, read again
DoubleCheck(entry, ttl_s, force_reload, t) == CacheHit(entry, ttl_s, force_reload, t)

LockFree_IgnoreLocked(lock) == lock.waiters = <<>>

\* asyncio.Lock.acquire succeeds at once iff unlocked and nobody queued
LockFree(lock) == ~lock.locked /\ lock.waiters = <<>>

\* asyncio.Lock.release: unlock; the first waiter (if any) is woken
Released(lock) == [lock EXCEPT !.locked = FALSE]

\* create_agent_graph returns workflow.compile(): a new object per call,
\* identified here by the invocation that built it
NewGraph(c) == c

\* Settings(graph_cache_ttl_s, graph_cache_force_reload): ttl_s >= 0
Settings == [graph_cache_ttl_s : Ttls, graph_cache_force_reload : BOOLEAN]

RegInit ==
    /\ settings \in Settings
    /\ now = 0
    /\ items = [k \in Keys |-> GraphEntry]
    /\ locks = [k \in Keys |-> [locked |-> FALSE, waiters |-> <<>>]]
    /\ rpc = [c \in Calls |-> "idle"]
    /\ call = [c \in Calls |-> "sofia"]
    /\ seen = [c \in Calls |-> NoGraph]
    /\ seenAge = [c \in Calls |-> NoTime]
    /\ invoked = [c \in Calls |-> FALSE]
    /\ result = [c \in Calls |-> NoGraph]

\* time passes between any two steps of the event loop
Tick ==
    /\ now < MaxTime
    /\ now' = now + 1
    /\ UNCHANGED <<settings, items, locks, rpc, call, seen, seenAge, invoked, result, notRegVars>>

\* aget_or_create up to its first suspension point: the fast path, then
\* `async with entry.lock` (taken at once when free, queued otherwise), the
\* double-check, and the start of `await factory()`
AgetStart(c, k, ttl_s, force_reload) ==
    /\ rpc[c] = "idle"
    /\ \A d \in Calls : d < c => rpc[d] /= "idle"
    /\ call' = [call EXCEPT ![c] = k]
    /\ seen' = [seen EXCEPT ![c] = items[k].graph]
    /\ seenAge' = [seenAge EXCEPT ![c] = AgeS(items[k], now)]
    /\ IF CacheHit(items[k], ttl_s, force_reload, now)
       THEN /\ rpc' = [rpc EXCEPT ![c] = "returned"]
            /\ result' = [result EXCEPT ![c] = items[k].graph]
            /\ UNCHANGED <<locks, invoked>>
       ELSE IF LockFree(locks[k])
       THEN \* the double-check reads the same entry and therefore fails too
            /\ locks' = [locks EXCEPT ![k].locked = TRUE]
            /\ rpc' = [rpc EXCEPT ![c] = "building"]
            /\ invoked' = [invoked EXCEPT ![c] = TRUE]
            /\ UNCHANGED result
       ELSE /\ locks' = [locks EXCEPT ![k].waiters = Append(@, c)]
            /\ rpc' = [rpc EXCEPT ![c] = "waiting"]
            /\ UNCHANGED <<invoked, result>>
    /\ UNCHANGED <<settings, now, items, notRegVars>>

\* a queued invocation is woken by release(): it takes the lock, runs the
\* double-check and either returns the cached graph or starts the factory
AgetResume(c, ttl_s, force_reload) ==
    LET k == call[c] IN
    /\ rpc[c] = "waiting"
    /\ ~locks[k].locked
    /\ locks[k].waiters /= <<>>
    /\ Head(locks[k].waiters) = c
    /\ IF DoubleCheck(items[k], ttl_s, force_reload, now)
       THEN /\ locks' = [locks EXCEPT ![k] = Released([locked |-> TRUE, waiters |-> Tail(@.waiters)])]
            /\ rpc' = [rpc EXCEPT ![c] = "returned"]
            /\ result' = [result EXCEPT ![c] = items[k].graph]
            /\ UNCHANGED invoked
       ELSE /\ locks' = [locks EXCEPT ![k] = [locked |-> TRUE, waiters |-> Tail(@.waiters)]]
            /\ rpc' = [rpc EXCEPT ![c] = "building"]
            /\ invoked' = [invoked EXCEPT ![c] = TRUE]
            /\ UNCHANGED result
    /\ UNCHANGED <<settings, now, items, call, seen, seenAge, notRegVars>>

\* factory() returned g: the entry is replaced, the lock released, g returned
AgetBuilt(c) ==
    LET k == call[c] IN
    /\ rpc[c] = "building"
    /\ items' = [items EXCEPT ![k] = [graph |-> NewGraph(c), initialized_at |-> now]]
    /\ locks' = [locks EXCEPT ![k] = Released(@)]
    /\ rpc' = [rpc EXCEPT ![c] = "returned"]
    /\ result' = [result EXCEPT ![c] = NewGraph(c)]
    /\ UNCHANGED <<settings, now, call, seen, seenAge, invoked, notRegVars>>

AgetFailed_EntryCleared(c) ==
    LET k == call[c] IN
    /\ rpc[c] = "building"
    /\ items' = [items EXCEPT ![k] = GraphEntry]
    /\ locks' = [locks EXCEPT ![k] = Released(@)]
    /\ rpc' = [rpc EXCEPT ![c] = "raised"]
    /\ UNCHANGED <<settings, now, call, seen, seenAge, invoked, result, notRegVars>>

\* factory() raised (init_resources or create_agent_mcp failed): the error
\* leaves `async with`, which releases the lock; the entry is untouched
AgetFailed(c) ==
    LET k == call[c] IN
    /\ rpc[c] = "building"
    /\ locks' = [locks EXCEPT ![k] = Released(@)]
    /\ rpc' = [rpc EXCEPT ![c] = "raised"]
    /\ UNCHANGED <<settings, now, items, call, seen, seenAge, invoked, result, notRegVars>>

\* _make_graph(name): aget_or_create with the policy of the settings
MakeGraph(c, name) ==
    AgetStart(c, name, settings.graph_cache_ttl_s, settings.graph_cache_force_reload)

MakeGraphResume(c) ==
    AgetResume(c, settings.graph_cache_ttl_s, settings.graph_cache_force_reload)

RegNext ==
    \/ Tick
    \/ \E c \in Calls, k \in Keys : MakeGraph(c, k)
    \/ \E c \in Calls : MakeGraphResume(c)
    \/ \E c \in Calls : AgetBuilt(c)
    \/ \E c \in Calls : AgetFailed(c)


(***************************************************************************)
(* Properties of the graph registry                                        *)
(***************************************************************************)
ttl_s == settings.graph_cache_ttl_s
force_reload == settings.graph_cache_force_reload

\* the invocations made so far on key k
OnKey(k) == {c \in Calls : rpc[c] /= "idle" /\ call[c] = k}
Returned(k) == {c \in OnKey(k) : rpc[c] = "returned"}
Invoked(k) == {c \in OnKey(k) : invoked[c]}
\* every invocation made so far on k began before k was ever built
NeverBuiltBefore(k) == \A c \in OnKey(k) : seen[c] = NoGraph

C2_SameObjectTtl0 ==
    (ttl_s = 0 /\ ~force_reload) =>
        \A c \in Calls :
            (rpc[c] /= "idle" /\ seen[c] /= NoGraph)
            => /\ rpc[c] = "returned"
               /\ result[c] = seen[c]
               /\ items[call[c]].graph = seen[c]
               /\ ~invoked[c]

C2_Witness ==
    /\ ttl_s = 0 /\ ~force_reload /\ now >= 2
    /\ \E c, d \in Calls :
        /\ c < d /\ call[c] = call[d]
        /\ rpc[c] = "returned" /\ rpc[d] = "returned"
        /\ invoked[c] /\ seen[d] /= NoGraph /\ seenAge[d] >= 2
        /\ result[d] = result[c]

\* C3: with force_reload = true and any ttl_s, every fetch that has finished
\* has invoked the factory, a fetch never returns the object that was cached
\* when it was made, and no two fetches return the same object.
C3_ForceReloadDistinct ==
    force_reload =>
        /\ \A c \in Calls : rpc[c] \in {"returned", "raised"} => invoked[c]
        /\ \A c \in Calls : rpc[c] = "returned" => result[c] /= seen[c]
        /\ \A c, d \in Calls :
            (c /= d /\ rpc[c] = "returned" /\ rpc[d] = "returned") => result[c] /= result[d]

C3_Witness ==
    /\ force_reload /\ ttl_s = 0
    /\ \E c, d \in Calls :
        /\ c < d /\ call[c] = call[d]
        /\ rpc[c] = "returned" /\ rpc[d] = "returned"
        /\ seen[d] = result[c] /\ seenAge[d] = 0
        /\ result[d] /= result[c]

C5_OneBuildPerKey ==
    \A k \in Keys : Cardinality({c \in OnKey(k) : rpc[c] = "building"}) <= 1

C5_Witness ==
    \E c, d, e \in Calls :
        /\ call[c] = call[d] /\ call[e] /= call[c]
        /\ rpc[c] = "building" /\ rpc[d] = "waiting" /\ rpc[e] = "building"

\* the fetches of key k made while the expired graph g was the cached one
SawExpired(k, g) == {c \in OnKey(k) : seen[c] = g /\ seenAge[c] > ttl_s}

\* C27 as stated: the concurrent fetches (force_reload = false) of a key
\* whose cached entry has expired cause exactly one rebuild, and all of them
\* return the object the winner built.
C27_AsClaimed ==
    \A k \in Keys, g \in Calls :
        (/\ ttl_s > 0 /\ ~force_reload
         /\ SawExpired(k, g) /= {}
         /\ \A c \in SawExpired(k, g) : rpc[c] = "returned")
        => /\ Cardinality({c \in SawExpired(k, g) : invoked[c]}) <= 1
           /\ \A c, d \in SawExpired(k, g) : result[c] = result[d]

\* C27, amended: of the concurrent fetches (force_reload = false) of a key
\* whose cached entry has expired, a caller that queued for the key's lock
\* and whose re-check inside the lock happens no later than ttl_s after the
\* rebuild of a concurrent caller observes that caller's graph as a cache hit
\* and returns that same object without invoking the factory; a caller
\* whose re-check happens later, or after a rebuild that failed, rebuilds;
\* at no moment are two rebuilds of the key in progress.
C27_OneRebuildWithinTtl ==
    [][\A c \in Calls :
          (/\ ttl_s > 0 /\ ~force_reload
           /\ seen[c] /= NoGraph /\ seenAge[c] > ttl_s
           /\ rpc[c] = "waiting" /\ rpc'[c] /= "waiting")
          => LET entry == items[call[c]] IN
             /\ IF entry.graph /= seen[c] /\ now - entry.initialized_at <= ttl_s
                THEN /\ rpc'[c] = "returned"
                     /\ result'[c] = entry.graph
                     /\ ~invoked'[c]
                     /\ \E d \in OnKey(call[c]) \ {c} :
                           invoked[d] /\ entry.graph = NewGraph(d)
                ELSE rpc'[c] = "building" /\ invoked'[c]
             /\ Cardinality({d \in OnKey(call[c]) : rpc'[d] = "building"}) <= 1]_vars

\* two fetches met the expired graph; one rebuilt it, the one that queued
\* returned the rebuilt graph
C27_Witness ==
    \E k \in Keys, g \in Calls :
        /\ ttl_s > 0 /\ ~force_reload
        /\ Cardinality(SawExpired(k, g)) >= 2
        /\ \A c \in SawExpired(k, g) : rpc[c] = "returned" /\ result[c] /= g
        /\ Cardinality({c \in SawExpired(k, g) : invoked[c]}) = 1
        /\ \A c, d \in SawExpired(k, g) : result[c] = result[d]

\* C37: when the factory raises during a build, the error reaches that
\* caller (it gets no graph), the lock of the key is released, the entry of
\* the key (graph and build timestamp) is what it was when the attempt began,
\* nobody having changed it during the attempt, the entries and locks of the
\* other keys are untouched, and the entry is still no cache hit, so that a
\* later fetch of the key goes to the factory again.
C37_FailedBuild ==
    [][ \A c \in Calls :
          LET k == call[c] IN
          /\ (rpc[c] = "building" /\ rpc'[c] = "building") => items'[k] = items[k]
          /\ (rpc[c] = "building" /\ rpc'[c] = "raised") =>
                /\ result'[c] = NoGraph
                /\ ~locks'[k].locked
                /\ items' = items
                /\ \A other \in Keys \ {k} : locks'[other] = locks[other]
                /\ ~CacheHit(items'[k], settings.graph_cache_ttl_s,
                             settings.graph_cache_force_reload, now') ]_vars

\* a rebuild of an expired graph raised, the entry still holds the old
\* graph, and a later fetch of the key has gone to the factory again
C37_Witness ==
    \E c, d \in Calls :
        /\ c < d
        /\ rpc[c] = "raised"
        /\ seen[c] /= NoGraph
        /\ call[d] = call[c]
        /\ invoked[d]
        /\ rpc[d] = "building"
        /\ items[call[c]].graph = seen[c]

(***************************************************************************)
(* Part 2: Python values, the business-data bag and the tool-result        *)
(* middleware (src/src/zena_middleware_wrap_tool.py).                      *)
(***************************************************************************)
\* A Python value: t its type, s the text of a str or bool, v the number of
\* an int, the elements of a list or the items [k, x] of a dict.
PNone == [t |-> "NoneType", s |-> "", v |-> <<>>]
PStr(x) == [t |-> "str", s |-> x, v |-> <<>>]
PInt(n) == [t |-> "int", s |-> "", v |-> <<n>>]
PBool(b) == [t |-> "bool", s |-> IF b THEN "True" ELSE "False", v |-> <<>>]
PList(xs) == [t |-> "list", s |-> "", v |-> xs]
PDict(kvs) == [t |-> "dict", s |-> "", v |-> kvs]
\* a Command returned by a tool instead of a ToolMessage
PCommand == [t |-> "Command", s |-> "", v |-> <<>>]

\* bool(x)
Truthy(x) ==
    CASE x.t = "NoneType" -> FALSE
      [] x.t = "str" -> x.s /= ""
      [] x.t = "int" -> x.v[1] /= 0
      [] x.t = "bool" -> x.s = "True"
      [] x.t \in {"list", "dict"} -> x.v /= <<>>
      [] OTHER -> TRUE

\* str(x) for the values the postprocessors convert
Str(x) ==
    CASE x.t = "NoneType" -> PStr("None")
      [] x.t = "int" -> PStr(ToString(x.v[1]))
      [] OTHER -> PStr(x.s)

\* key in d
Has(d, key) == d.t = "dict" /\ \E i \in 1..Len(d.v) : d.v[i].k = key

\* d.get(key)
Get(d, key) ==
    IF Has(d, key)
    THEN d.v[CHOOSE i \in 1..Len(d.v) : d.v[i].k = key].x
    ELSE PNone

\* x or y
Or(x, y) == IF Truthy(x) THEN x ELSE y

(***************************************************************************)
(* Decoding of a tool's raw result                                         *)
(***************************************************************************)
\* A raw string: s names it, blank says that it is empty or whitespace
\* only, js holds the value json.loads gives for it (none: not JSON).
Text(name, blank, js) == [s |-> name, blank |-> blank, js |-> js]
JsonText(p) == Text("json", FALSE, <<p>>)

\* _content_to_text: a str as it is; of a non-empty list the "text" or the
\* "content" of its first part when that is a str; otherwise "" (empty)
ContentToText(content, empty) ==
    IF content.kind = "str" THEN content.text
    ELSE IF content.kind = "list" /\ content.parts /= <<>>
    THEN LET part == content.parts[1] IN
         IF part.kind = "dict" /\ part.key \in {"text", "content"} THEN part.text
         ELSE empty
    ELSE empty

\* _parse_tool_content: "" for blank content, the decoded JSON when the
\* content is JSON, otherwise the raw string
ParseToolContent(res) ==
    LET raw == ContentToText(res.content, Text("", TRUE, <<>>)) IN
    IF raw.blank THEN PStr("")
    ELSE IF raw.js /= <<>> THEN raw.js[1]
    ELSE PStr(raw.s)

\* parsed = _parse_tool_content(result) if isinstance(result, ToolMessage) else result
Parsed(res) == IF res.kind = "ToolMessage" THEN ParseToolContent(res) ELSE PCommand

IsPayload_AnySuccess(parsed) == parsed.t = "dict" /\ Has(parsed, "success")

\* the contract: a dict whose "success" is a bool
IsPayload(parsed) == parsed.t = "dict" /\ Get(parsed, "success").t = "bool"

\* _normalize_envelope, for a parsed value that satisfies the contract
NormalizeEnvelope(parsed) ==
    LET code == Get(parsed, "code")
        error == Get(parsed, "error")
    IN  [ success |-> Truthy(Get(parsed, "success")),
          data |-> Get(parsed, "data"),
          code |-> IF code.t \in {"NoneType", "str"} THEN code ELSE Str(code),
          error |-> IF error.t \in {"NoneType", "str"} THEN error ELSE Str(error) ]

(***************************************************************************)
(* The business-data bag (state["data"]) and the postprocessors            *)
(***************************************************************************)
\* d[key] = x
Put(d, key, x) ==
    IF Has(d, key)
    THEN PDict([i \in 1..Len(d.v) |-> IF d.v[i].k = key THEN [k |-> key, x |-> x] ELSE d.v[i]])
    ELSE PDict(Append(d.v, [k |-> key, x |-> x]))

AVAILIABLE_PORT_ALENA == {15020, 5020}
AVAILIABLE_PORT_DEFAULT ==
    {15001, 5001, 5002, 15002, 15005, 5005, 15006, 5006, 15021, 5021, 15024, 5024}

\* _port_allowed_default / _port_allowed_alena
PortAllowedDefault(d) == d.mcp_port \in AVAILIABLE_PORT_DEFAULT
PortAllowedAlena(d) == d.mcp_port \in AVAILIABLE_PORT_ALENA

RunTemplate_SuccessNotRequired(port_ok, env, types, require_truthy_data) ==
    /\ port_ok
    /\ env.data.t \in types
    /\ require_truthy_data => Truthy(env.data)
\* _run_template up to the call of on_ok: the port guard, success, the type
\* of data, its truthiness
RunTemplate(port_ok, env, types, require_truthy_data) ==
    /\ port_ok
    /\ env.success
    /\ env.data.t \in types
    /\ require_truthy_data => Truthy(env.data)

\* the value _run_template returns
TemplateResult(ran, env) == IF ran THEN env.data ELSE PNone

\* parse_item
ParseItem(item) ==
    PDict(SelectSeq(
        << [k |-> "item_id", x |-> Get(item, "product_id")],
           [k |-> "item_name", x |-> Get(item, "product_name")],
           [k |-> "item_duration", x |-> Get(item, "duration")],
           [k |-> "item_price", x |-> Get(item, "price")] >>,
        LAMBDA e : e.x /= PNone))

\* the reset both pp_recommendations and pp_call_administrator apply
FunnelReset(d) ==
    [d EXCEPT !.dialog_state = "new",
              !.items_search = PList(<<>>), !.item_selected = PList(<<>>),
              !.available_time = PList(<<>>), !.available_sequences = PList(<<>>),
              !.user_records = PList(<<>>),
              !.office_id = PNone, !.desired_date = PNone,
              !.desired_time = PNone, !.desired_master = PNone]

\* the reply pp_records stores when the client has no bookings
NoRecordsText == PStr("no bookings")

pp_available_time_for_master(d, env, args) ==
    LET ran == RunTemplate(PortAllowedDefault(d), env, {"list"}, TRUE) IN
    [ data |-> IF ran
               THEN [d EXCEPT !.available_time = PList(Append(@.v, env.data)),
                              !.dialog_state = IF Truthy(d.user_records) THEN @ ELSE "available_time"]
               ELSE d,
      result |-> TemplateResult(ran, env) ]

pp_available_time_for_master_list(d, env, args) ==
    LET ran == RunTemplate(PortAllowedDefault(d), env, {"list"}, TRUE) IN
    [ data |-> IF ran /\ Len(env.data.v) >= 2
               THEN [d EXCEPT !.available_time = PList(Append(@.v, env.data.v[1])),
                              !.available_sequences = PList(Append(@.v, env.data.v[2])),
                              !.dialog_state = "available_time"]
               ELSE d,
      result |-> TemplateResult(ran, env) ]

pp_record_time(d, env, args) ==
    LET ran == RunTemplate(PortAllowedDefault(d), env, {"dict"}, FALSE)
        tool_args == Or(args, PDict(<<>>))
    IN
    [ data |-> IF ran
               THEN [d EXCEPT !.dialog_state = "postrecord",
                              !.desired_date = Get(tool_args, "date"),
                              !.office_id = Get(tool_args, "office_id"),
                              !.desired_master = PDict(<<[k |-> "master_id", x |-> Get(tool_args, "master_id")]>>),
                              !.item_selected = PList(<<PDict(<<[k |-> "item_id", x |-> Get(tool_args, "product_id")]>>)>>)]
               ELSE d,
      result |-> TemplateResult(ran, env) ]

pp_recommendations(d, env, args) ==
    LET ran == RunTemplate(PortAllowedDefault(d), env, {"list", "dict", "str", "NoneType"}, FALSE) IN
    [ data |-> IF ran THEN FunnelReset(d) ELSE d, result |-> TemplateResult(ran, env) ]

pp_call_administrator(d, env, args) ==
    LET ran == RunTemplate(PortAllowedDefault(d), env, {"str", "dict", "NoneType"}, FALSE) IN
    [ data |-> IF ran THEN FunnelReset(d) ELSE d, result |-> TemplateResult(ran, env) ]

pp_records(d, env, args) ==
    LET ran == RunTemplate(PortAllowedDefault(d), env, {"list"}, FALSE) IN
    [ data |-> IF ~ran THEN d
               ELSE IF Truthy(env.data)
               THEN [d EXCEPT !.user_records = env.data, !.desired_date = PNone, !.desired_time = PNone]
               ELSE [d EXCEPT !.user_records = NoRecordsText],
      result |-> TemplateResult(ran, env) ]

pp_record_delete(d, env, args) ==
    LET ran == RunTemplate(PortAllowedDefault(d), env, {"str", "dict", "NoneType"}, FALSE) IN
    [ data |-> IF ran
               THEN [d EXCEPT !.user_records = PList(<<>>), !.desired_date = PNone, !.desired_time = PNone]
               ELSE d,
      result |-> TemplateResult(ran, env) ]

pp_record_reschedule(d, env, args) ==
    LET ran == RunTemplate(PortAllowedDefault(d), env, {"str", "dict", "NoneType"}, FALSE) IN
    [ data |-> IF ran
               THEN [d EXCEPT !.user_records = PList(<<>>), !.desired_date = PNone, !.desired_time = PNone]
               ELSE d,
      result |-> TemplateResult(ran, env) ]

pp_remember_office(d, env, args) ==
    LET ran == RunTemplate(PortAllowedDefault(d), env, {"dict"}, FALSE)
        office_id == Get(env.data, "office_id")
    IN
    [ data |-> IF ran /\ office_id /= PNone THEN [d EXCEPT !.office_id = Str(office_id)] ELSE d,
      result |-> TemplateResult(ran, env) ]

pp_remember_desired_date(d, env, args) ==
    LET ran == RunTemplate(PortAllowedDefault(d), env, {"dict"}, FALSE)
        desired_date == Get(env.data, "desired_date")
    IN
    [ data |-> IF ran /\ desired_date /= PNone THEN [d EXCEPT !.desired_date = Str(desired_date)] ELSE d,
      result |-> TemplateResult(ran, env) ]

pp_remember_desired_time(d, env, args) ==
    LET ran == RunTemplate(PortAllowedDefault(d), env, {"dict"}, FALSE)
        desired_time == Get(env.data, "desired_time")
    IN
    [ data |-> IF ran /\ desired_time /= PNone THEN [d EXCEPT !.desired_time = Str(desired_time)] ELSE d,
      result |-> TemplateResult(ran, env) ]

pp_remember_master(d, env, args) ==
    LET ran == RunTemplate(PortAllowedDefault(d), env, {"dict"}, FALSE)
        master_id == Get(env.data, "master_id")
        master_name == IF Has(env.data, "master_name") THEN Get(env.data, "master_name") ELSE PStr("")
    IN
    [ data |-> IF ran /\ Truthy(master_id)
               THEN [d EXCEPT !.desired_master =
                        PDict(<<[k |-> "master_id", x |-> Str(master_id)],
                                [k |-> "master_name", x |-> Str(master_name)]>>)]
               ELSE d,
      result |-> TemplateResult(ran, env) ]

\* [parse_item(x) for x in products if isinstance(x, dict)]
ParsedDicts(products) ==
    LET dicts == SelectSeq(products, LAMBDA x : x.t = "dict") IN
    [i \in 1..Len(dicts) |-> ParseItem(dicts[i])]

pp_product_remember(d, env, args) ==
    LET ran == RunTemplate(PortAllowedDefault(d), env, {"list"}, TRUE)
        items_out == IF ran THEN ParsedDicts(env.data.v) ELSE <<>>
    IN
    [ data |-> IF items_out /= <<>>
               THEN [d EXCEPT !.item_selected = PList(items_out), !.dialog_state = "remember"]
               ELSE d,
      result |-> IF items_out /= <<>> THEN PList(items_out) ELSE PNone ]

\* the loop of pp_product_search: the parsed items with a truthy item_id not
\* seen before, in order
RECURSIVE NewItems(_, _)
NewItems(raws, existing_ids) ==
    IF raws = <<>> THEN <<>>
    ELSE LET item == ParseItem(Head(raws))
             item_id == Get(item, "item_id")
         IN  IF Head(raws).t = "dict" /\ Truthy(item_id) /\ item_id \notin existing_ids
             THEN <<item>> \o NewItems(Tail(raws), existing_ids \cup {item_id})
             ELSE NewItems(Tail(raws), existing_ids)

pp_product_search(d, env, args) ==
    LET ran == RunTemplate(PortAllowedDefault(d), env, {"list"}, FALSE)
        items_search == d.items_search.v
        existing_ids == {Get(items_search[i], "item_id") :
                            i \in {j \in 1..Len(items_search) : items_search[j].t = "dict"}}
        new_items == IF ran THEN NewItems(env.data.v, existing_ids) ELSE <<>>
        extended == items_search \o new_items
    IN
    [ data |-> IF ran
               THEN [d EXCEPT !.items_search = PList(extended),
                              !.dialog_state = IF extended /= <<>> THEN "selecting" ELSE @]
               ELSE d,
      result |-> IF new_items /= <<>> THEN PList(new_items) ELSE PNone ]

pp_get_client_lessons(d, env, args) ==
    LET ran == RunTemplate(PortAllowedAlena(d), env, {"dict"}, TRUE) IN
    [ data |-> IF ran THEN [d EXCEPT !.dialog_state = "selecting", !.items_search = env.data] ELSE d,
      result |-> TemplateResult(ran, env) ]

pp_remember_lesson_id(d, env, args) ==
    LET ran == RunTemplate(PortAllowedAlena(d), env, {"dict", "list", "str"}, TRUE) IN
    [ data |-> IF ran THEN [d EXCEPT !.dialog_state = "remember", !.item_selected = env.data] ELSE d,
      result |-> TemplateResult(ran, env) ]

pp_update_client_lesson(d, env, args) ==
    LET ran == RunTemplate(PortAllowedAlena(d), env, {"str", "dict", "list"}, FALSE) IN
    [ data |-> IF ran THEN [d EXCEPT !.dialog_state = "new"] ELSE d,
      result |-> TemplateResult(ran, env) ]

pp_update_client_info(d, env, args) ==
    LET ran == RunTemplate(PortAllowedAlena(d), env, {"str", "dict", "list"}, FALSE)
        onboarding == IF d.onboarding = PNone THEN PDict(<<>>) ELSE d.onboarding
    IN
    [ data |-> IF ran
               THEN [d EXCEPT !.onboarding = Put(onboarding, "onboarding_status", PBool(TRUE))]
               ELSE d,
      result |-> TemplateResult(ran, env) ]

TOOL_POSTPROCESSORS_DEFAULT ==
    [ zena_avaliable_time_for_master |-> "pp_available_time_for_master",
      zena_record_time |-> "pp_record_time",
      zena_recommendations |-> "pp_recommendations",
      zena_product_search |-> "pp_product_search",
      zena_remember_product_id |-> "pp_product_remember",
      zena_remember_office |-> "pp_remember_office",
      zena_remember_master |-> "pp_remember_master",
      zena_remember_desired_date |-> "pp_remember_desired_date",
      zena_remember_desired_time |-> "pp_remember_desired_time",
      zena_records |-> "pp_records",
      zena_record_delete |-> "pp_record_delete",
      zena_record_reschedule |-> "pp_record_reschedule",
      zena_call_administrator |-> "pp_call_administrator" ]

TOOL_POSTPROCESSORS_5007 ==
    [ zena_available_time_for_master_list |-> "pp_available_time_for_master_list",
      zena_record_time |-> "pp_record_time",
      zena_recommendations |-> "pp_recommendations",
      zena_product_search |-> "pp_product_search",
      zena_remember_product_id_list |-> "pp_product_remember",
      zena_remember_office |-> "pp_remember_office",
      zena_remember_master |-> "pp_remember_master",
      zena_remember_desired_date |-> "pp_remember_desired_date",
      zena_remember_desired_time |-> "pp_remember_desired_time" ]

TOOL_POSTPROCESSORS_ALENA ==
    [ zena_get_client_lessons |-> "pp_get_client_lessons",
      zena_remember_lesson_id |-> "pp_remember_lesson_id",
      zena_update_client_lesson |-> "pp_update_client_lesson",
      zena_update_client_info |-> "pp_update_client_info" ]

\* _get_registry_for_request, then the override for port 5007
RegistryFor(d) ==
    IF d.mcp_port = 5007 THEN TOOL_POSTPROCESSORS_5007
    ELSE IF d.mcp_port \in AVAILIABLE_PORT_ALENA THEN TOOL_POSTPROCESSORS_ALENA
    ELSE TOOL_POSTPROCESSORS_DEFAULT

\* registry.get(tool_name)
RegistryGet(registry, tool_name) ==
    IF tool_name \in DOMAIN registry THEN registry[tool_name] ELSE "none"

\* await pp(env, request)
RunPostProcessor(pp, d, env, args) ==
    CASE pp = "pp_available_time_for_master" -> pp_available_time_for_master(d, env, args)
      [] pp = "pp_available_time_for_master_list" -> pp_available_time_for_master_list(d, env, args)
      [] pp = "pp_record_time" -> pp_record_time(d, env, args)
      [] pp = "pp_recommendations" -> pp_recommendations(d, env, args)
      [] pp = "pp_call_administrator" -> pp_call_administrator(d, env, args)
      [] pp = "pp_records" -> pp_records(d, env, args)
      [] pp = "pp_record_delete" -> pp_record_delete(d, env, args)
      [] pp = "pp_record_reschedule" -> pp_record_reschedule(d, env, args)
      [] pp = "pp_remember_office" -> pp_remember_office(d, env, args)
      [] pp = "pp_remember_desired_date" -> pp_remember_desired_date(d, env, args)
      [] pp = "pp_remember_desired_time" -> pp_remember_desired_time(d, env, args)
      [] pp = "pp_remember_master" -> pp_remember_master(d, env, args)
      [] pp = "pp_product_remember" -> pp_product_remember(d, env, args)
      [] pp = "pp_product_search" -> pp_product_search(d, env, args)
      [] pp = "pp_get_client_lessons" -> pp_get_client_lessons(d, env, args)
      [] pp = "pp_remember_lesson_id" -> pp_remember_lesson_id(d, env, args)
      [] pp = "pp_update_client_lesson" -> pp_update_client_lesson(d, env, args)
      [] pp = "pp_update_client_info" -> pp_update_client_info(d, env, args)
      [] OTHER -> [data |-> d, result |-> PNone]

(***************************************************************************)
(* ToolMonitoringMiddleware.awrap_tool_call                                *)
(***************************************************************************)
MaxToolCalls == 2

\* the ports of the runs explored: sofia (classic), anastasia, alena
ToolPorts == {5002, 5007, 5020}

\* the bag at the start of a run for a client without stored values
Bag(port) ==
    [ mcp_port |-> port, dialog_state |-> "new",
      items_search |-> PList(<<>>), item_selected |-> PList(<<>>),
      available_time |-> PList(<<>>), available_sequences |-> PList(<<>>),
      office_id |-> PList(<<>>), desired_date |-> PList(<<>>),
      desired_time |-> PList(<<>>), desired_master |-> PList(<<>>),
      user_records |-> PNone, onboarding |-> PNone,
      dialog_state_in |-> "new", channel_id |-> PInt(1), phone |-> PNone,
      consent |-> PNone, email |-> PNone, first_name |-> PNone, last_name |-> PNone ]

\* --- what a tool handler can give back ---
StrContent(text) == [kind |-> "str", text |-> text, parts |-> <<>>]
ListContent(parts) == [kind |-> "list", text |-> Text("", TRUE, <<>>), parts |-> parts]
ToolMessage(content) == [kind |-> "ToolMessage", content |-> content]
Command == [kind |-> "Command", content |-> StrContent(Text("", TRUE, <<>>))]
Raised == [kind |-> "raise", content |-> StrContent(Text("", TRUE, <<>>))]

\* {"success": True, "data": X}
Ok(x) == PDict(<<[k |-> "success", x |-> PBool(TRUE)], [k |-> "data", x |-> x]>>)
\* {"success": False, "code": ..., "error": ...}
Err == PDict(<<[k |-> "success", x |-> PBool(FALSE)],
               [k |-> "code", x |-> PInt(500)], [k |-> "error", x |-> PStr("boom")]>>)

\* a failure that carries data all the same
ErrWith(x) ==
    PDict(<<[k |-> "success", x |-> PBool(FALSE)], [k |-> "code", x |-> PStr("E_TOOL")],
            [k |-> "error", x |-> PStr("boom")], [k |-> "data", x |-> x]>>)

Slots == PList(<<PStr("10:00"), PStr("11:00")>>)
Product(id) == PDict(<<[k |-> "product_id", x |-> PStr(id)], [k |-> "product_name", x |-> PStr("cut")]>>)
Products == PList(<<Product("1-1"), PStr("junk"), Product("1-1"), Product("1-2")>>)
Records == PList(<<PDict(<<[k |-> "record_id", x |-> PInt(7)]>>)>>)
Remembered ==
    PDict(<<[k |-> "office_id", x |-> PInt(1)], [k |-> "desired_date", x |-> PStr("2025-01-01")],
            [k |-> "desired_time", x |-> PStr("10:00")], [k |-> "master_id", x |-> PInt(3)]>>)
RecordArgs ==
    PDict(<<[k |-> "date", x |-> PStr("2025-01-01")], [k |-> "office_id", x |-> PStr("1")],
            [k |-> "master_id", x |-> PInt(3)], [k |-> "product_id", x |-> PStr("1-1")]>>)

ToolNames ==
    DOMAIN TOOL_POSTPROCESSORS_DEFAULT \cup DOMAIN TOOL_POSTPROCESSORS_5007
        \cup DOMAIN TOOL_POSTPROCESSORS_ALENA \cup {"zena_faq"}

\* the data a tool's successful payload carries: values its postprocessor
\* accepts and values it rejects
DataOf(tool_name) ==
    CASE tool_name \in {"zena_avaliable_time_for_master", "zena_available_time_for_master_list"}
            -> {Slots, PList(<<>>)}
      [] tool_name \in {"zena_product_search", "zena_remember_product_id", "zena_remember_product_id_list"}
            -> {Products, PList(<<>>)}
      [] tool_name = "zena_records" -> {Records, PList(<<>>)}
      [] tool_name \in {"zena_remember_office", "zena_remember_master",
                        "zena_remember_desired_date", "zena_remember_desired_time",
                        "zena_get_client_lessons", "zena_remember_lesson_id"}
            -> {Remembered, PDict(<<>>)}
      [] tool_name = "zena_call_administrator" -> {PNone, PList(<<>>)}
      [] OTHER -> {PStr("ok"), PNone}

\* the arguments of a tool call
ArgsOf(tool_name) ==
    IF tool_name = "zena_record_time" THEN {RecordArgs, PNone} ELSE {PDict(<<>>)}

\* results that do not decode into a mapping with a boolean "success"
BadResults ==
    { Command,
      ToolMessage(StrContent(Text("", TRUE, <<>>))),
      ToolMessage(StrContent(Text("not json", FALSE, <<>>))),
      ToolMessage(ListContent(<<[kind |-> "str", key |-> "", text |-> JsonText(Ok(PNone))]>>)),
      ToolMessage(StrContent(JsonText(PNone))),
      ToolMessage(StrContent(JsonText(PList(<<Ok(PNone)>>)))),
      ToolMessage(StrContent(JsonText(PDict(<<[k |-> "data", x |-> Slots]>>)))),
      ToolMessage(StrContent(JsonText(PDict(<<[k |-> "success", x |-> PInt(1)], [k |-> "data", x |-> Slots]>>)))),
      ToolMessage(StrContent(JsonText(PDict(<<[k |-> "success", x |-> PNone]>>)))) }

\* everything the handler of a tool can do: raise, or return one of these
Handled(tool_name) ==
    {Raised} \cup BadResults
        \cup {ToolMessage(StrContent(JsonText(Ok(x)))) : x \in DataOf(tool_name)}
        \cup {ToolMessage(ListContent(<<[kind |-> "dict", key |-> "text", text |-> JsonText(Err)]>>))}
        \cup {ToolMessage(StrContent(JsonText(ErrWith(x)))) : x \in {y \in DataOf(tool_name) : Truthy(y)}}

\* the tools a run on the port calls: those of its registry and one
\* without a postprocessor
ToolsOn(port) ==
    DOMAIN RegistryFor([mcp_port |-> port]) \cup {"zena_faq"}

NoCall ==
    [ name |-> "", raw |-> Raised, outcome |-> "none", pp |-> "none", pp_env |-> <<>>,
      before |-> Bag(5002), before_results |-> <<>> ]

ToolIdle == data = Bag(5002) /\ tools_result = <<>> /\ lastCall = NoCall

ToolInit ==
    /\ data \in {Bag(port) : port \in ToolPorts}
    /\ tools_result = <<>>
    /\ lastCall = NoCall

\* awrap_tool_call: the handler, the decoding, the contract, the
\* postprocessor of the port's registry, the entry in tools_result; any
\* exception is logged and raised again, which ends the run
ToolCall(tool_name, tool_args, handled) ==
    /\ lastCall.outcome \in {"none", "returned"}
    /\ Len(tools_result) < MaxToolCalls
    /\ UNCHANGED notToolVars
    /\ LET parsed == Parsed(handled)
           called == [ name |-> tool_name, raw |-> handled, outcome |-> "returned",
                       pp |-> "none", pp_env |-> <<>>,
                       before |-> data, before_results |-> tools_result ]
       IN
       IF handled.kind = "raise"
       THEN /\ lastCall' = [called EXCEPT !.outcome = "handler_error"]
            /\ UNCHANGED <<data, tools_result>>
       ELSE IF ~IsPayload(parsed)
       THEN /\ lastCall' = [called EXCEPT !.outcome = "contract_violation"]
            /\ UNCHANGED <<data, tools_result>>
       ELSE LET env == NormalizeEnvelope(parsed)
                pp == RegistryGet(RegistryFor(data), tool_name)
                out == RunPostProcessor(pp, data, env, tool_args)
            IN  /\ data' = out.data
                /\ tools_result' = Append(tools_result,
                        [ name |-> tool_name, args |-> tool_args,
                          envelope |-> [success |-> env.success, code |-> env.code, error |-> env.error],
                          result |-> out.result ])
                /\ lastCall' = [called EXCEPT !.pp = pp,
                                              !.pp_env = IF pp = "none" THEN <<>> ELSE <<env>>]

HandledBy == [tool_name \in ToolNames |-> Handled(tool_name)]

ToolNext ==
    \E tool_name \in ToolsOn(data.mcp_port) :
        \E tool_args \in ArgsOf(tool_name), handled \in HandledBy[tool_name] :
            ToolCall(tool_name, tool_args, handled)

(***************************************************************************)
(* Properties of the tool-result middleware                                *)
(***************************************************************************)
\* C6: when the raw result of a tool decodes to {success: true, data: X},
\* the call returns and the postprocessor that the registry of the port holds
\* for the tool is invoked with data = X; when the result does not decode
\* into a mapping with a boolean success, the call fails with a contract
\* violation, no postprocessor is invoked, and the bag and tools_result stay
\* as they were.
C6_EnvelopeContract ==
    (lastCall.outcome /= "none" /\ lastCall.raw.kind /= "raise") =>
        LET parsed == Parsed(lastCall.raw)
            success == Get(parsed, "success")
        IN
        /\ (parsed.t = "dict" /\ success = PBool(TRUE)) =>
              /\ lastCall.outcome = "returned"
              /\ lastCall.pp = RegistryGet(RegistryFor(lastCall.before), lastCall.name)
              /\ lastCall.pp /= "none" =>
                    /\ Len(lastCall.pp_env) = 1
                    /\ lastCall.pp_env[1].success
                    /\ lastCall.pp_env[1].data = Get(parsed, "data")
        /\ ~(parsed.t = "dict" /\ success.t = "bool") =>
              /\ lastCall.outcome = "contract_violation"
              /\ lastCall.pp_env = <<>>
              /\ data = lastCall.before
              /\ tools_result = lastCall.before_results

C6_Witness ==
    /\ Len(tools_result) = 1
    /\ tools_result[1].name = "zena_product_search"
    /\ tools_result[1].result = PList(<<ParseItem(Product("1-1")), ParseItem(Product("1-2"))>>)
    /\ data.dialog_state = "selecting"
    /\ lastCall.outcome = "contract_violation"
    /\ Parsed(lastCall.raw).t = "dict"
    /\ Has(Parsed(lastCall.raw), "success")

\* the last call returned an envelope with success = false
FailedEnvelope ==
    /\ lastCall.outcome = "returned"
    /\ Get(Parsed(lastCall.raw), "success") = PBool(FALSE)

\* C36: when a tool returns a well-formed envelope with success = false, the
\* business-data bag after the tool call is the bag before it, field by
\* field: no postprocessor has changed dialog_state, a funnel field or the
\* onboarding record.
C36_FailureLeavesBag ==
    FailedEnvelope => data = lastCall.before

\* a failure that carries data its postprocessor would accept, on a port
\* the postprocessor serves
C36_Witness ==
    /\ FailedEnvelope
    /\ lastCall.pp = "pp_available_time_for_master"
    /\ PortAllowedDefault(data)
    /\ Get(Parsed(lastCall.raw), "data") = Slots
    /\ data = lastCall.before
    /\ tools_result[Len(tools_result)].result = PNone

\* C40: after a view of the bookings that found none, a successful
\* single-variant slot search in the same run advances dialog_state to
\* available_time: the stored sentence is not a reschedule in progress.
C40_AsClaimed ==
    ( /\ lastCall.outcome = "returned"
      /\ lastCall.pp = "pp_available_time_for_master"
      /\ Get(Parsed(lastCall.raw), "success") = PBool(TRUE)
      /\ Get(Parsed(lastCall.raw), "data") = Slots
      /\ lastCall.before.user_records = NoRecordsText
      /\ lastCall.before_results /= <<>>
      /\ lastCall.before_results[Len(lastCall.before_results)].name = "zena_records" )
    => data.dialog_state = "available_time"

\* C29 as stated: on port 5007 a successful list-variant slot search (a
\* list of the slots and the sequences) appends the slots to available_time,
\* the sequences to available_sequences, and sets the stage available_time.
C29_AsClaimed ==
    (/\ data.mcp_port = 5007
     /\ lastCall.name = "zena_available_time_for_master_list"
     /\ lastCall.outcome = "returned"
     /\ lastCall.raw = ToolMessage(StrContent(JsonText(Ok(Slots)))))
    => /\ data.dialog_state = "available_time"
       /\ data.available_time = PList(Append(lastCall.before.available_time.v, Slots.v[1]))
       /\ data.available_sequences
             = PList(Append(lastCall.before.available_sequences.v, Slots.v[2]))

(***************************************************************************)
(* Part 3: the before-agent hooks                                          *)
(* (src/src/zena_middleware_before_agent.py).  Cyrillic text is written    *)
(* in Latin transliteration, one character per element; a predefined      *)
(* message is cut after its distinguishing words, "~" standing for the     *)
(* rest.                                                                   *)
(***************************************************************************)
Uppercase == <<"A", "B", "C", "D", "E", "F", "G", "H", "I", "J", "K", "L", "M",
               "N", "O", "P", "Q", "R", "S", "T", "U", "V", "W", "X", "Y", "Z">>
Lowercase == <<"a", "b", "c", "d", "e", "f", "g", "h", "i", "j", "k", "l", "m",
               "n", "o", "p", "q", "r", "s", "t", "u", "v", "w", "x", "y", "z">>
Whitespace == {" ", "\t", "\n"}

\* str.lower()
LowerChar(ch) ==
    IF \E i \in 1..Len(Uppercase) : Uppercase[i] = ch
    THEN Lowercase[CHOOSE i \in 1..Len(Uppercase) : Uppercase[i] = ch]
    ELSE ch
Lower(str) == [i \in 1..Len(str) |-> LowerChar(str[i])]

\* str.strip()
RECURSIVE LStrip(_)
LStrip(str) == IF str /= <<>> /\ Head(str) \in Whitespace THEN LStrip(Tail(str)) ELSE str
RECURSIVE RStrip(_)
RStrip(str) ==
    IF str /= <<>> /\ str[Len(str)] \in Whitespace THEN RStrip(SubSeq(str, 1, Len(str) - 1)) ELSE str
Strip(str) == RStrip(LStrip(str))

PREDEFINED_MESSAGES ==
    { <<"V", "a", "s", "h", "e", "~">>,
      <<"P", "o", "z", "h", "a", "l", "u", "j", "s", "t", "a", ",", "~">>,
      <<"M", "y", "~">>,
      <<"A", "j", "-", "a", "j", "-", "a", "j", ",", "~">>,
      <<"D", "a", "v", "a", "j", "t", "e", " ", "b", "e", "z", "~">>,
      <<"P", "o", "p", "r", "o", "b", "u", "j", "t", "e", "~">>,
      <<"N", "e", "h", "o", "r", "o", "s", "h", "o", "~">>,
      <<"D", "a", "v", "a", "j", "t", "e", " ", "d", "e", "r", "z", "h", "a", "t", "'", "~">> }
PREDEFINED_STOP == <<"s", "t", "o", "p">>
PREDEFINED_DEL_PERSONAL_DATA == <<"p", "h", "o", "n", "e">>

\* the replies of the hooks
MEMORY_CLEARED == <<"P", "a", "m", "y", "a", "t", "'", " ", "o", "c", "h", "i", "s", "h", "c", "h", "e", "n", "a">>
PERSONAL_DATA_DELETED == <<"P", "e", "r", "s", "o", "n", "a", "l", "'", "n", "y", "e", " ", "d", "a", "n", "n", "y", "e", " ", "u", "d", "a", "l", "e", "n", "y">>
BOT_UNAVAILABLE == <<"B", "o", "t", " ", "v", "r", "e", "m", "e", "n", "n", "o", " ", "n", "e", " ", "r", "a", "b", "o", "t", "a", "e", "t">>

HumanMessage(content) == [type |-> "human", content |-> content]
AIMessage(text) == [type |-> "ai", content |-> [kind |-> "str", text |-> text, parts |-> <<>>]]

\* last_message: messages[-1].content if messages else None, as text, stripped
LastMessage(msgs) ==
    Strip(ContentToText(IF msgs /= <<>> THEN msgs[Len(msgs)].content
                        ELSE [kind |-> "none", text |-> <<>>, parts |-> <<>>],
                        <<>>))

IsStop_CaseSensitive(last_message) == last_message = PREDEFINED_STOP
\* last_message.lower() == PREDEFINED_STOP
IsStop(last_message) == Lower(last_message) = PREDEFINED_STOP

IsDelPersonalData_CaseSensitive(last_message) == last_message = PREDEFINED_DEL_PERSONAL_DATA
\* last_message.lower() == PREDEFINED_DEL_PERSONAL_DATA
IsDelPersonalData(last_message) == Lower(last_message) = PREDEFINED_DEL_PERSONAL_DATA

IsPredefined_Lowered(last_message) == Lower(last_message) \in PREDEFINED_MESSAGES
\* last_message in PREDEFINED_MESSAGES
IsPredefined(last_message) == last_message \in PREDEFINED_MESSAGES

Caught_OnlyInVerify(hook) == hook = "VerifyInputMessage"
\* `except Exception` around the whole body of the hook
Caught(hook) == TRUE

\* one dependency call and how it ended: "ok"; "absorbed", the dependency
\* caught its own error and returned a failure value; "raised", the error
\* left the dependency (after the retries of retry_async)
Dep(name, outcome) == [name |-> name, outcome |-> outcome]
AnyRaised(calls) == \E i \in 1..Len(calls) : calls[i].outcome = "raised"

\* data_user_info: {"data": flat_data} with the channel and the user only;
\* the funnel keys are absent ("" and None stand for an absent key)
DataUserInfo(d) ==
    [ mcp_port |-> d.mcp_port, channel_id |-> d.channel_id, phone |-> d.phone,
      consent |-> d.consent, email |-> d.email,
      first_name |-> d.first_name, last_name |-> d.last_name,
      dialog_state |-> "", dialog_state_in |-> "",
      items_search |-> PNone, item_selected |-> PNone,
      available_time |-> PNone, available_sequences |-> PNone,
      office_id |-> PNone, desired_date |-> PNone,
      desired_time |-> PNone, desired_master |-> PNone,
      user_records |-> PNone, onboarding |-> PNone ]

\* the result of a hook that failed: the generic reply and the jump to the
\* end when the hook catches the exception, the exception otherwise
HookFailed(hook) ==
    IF Caught(hook)
    THEN /\ messages' = Append(messages, AIMessage(BOT_UNAVAILABLE))
         /\ step' = "end"
    ELSE /\ step' = "raised"
         /\ UNCHANGED messages

\* VerifyInputMessage.abefore_agent
VerifyInputMessage(save, deleted, info) ==
    /\ step = "VerifyInputMessage"
    /\ LET last_message == LastMessage(messages)
           branch == IF IsStop(last_message) THEN "stop"
                     ELSE IF IsDelPersonalData(last_message) THEN "phone"
                     ELSE IF IsPredefined(last_message) THEN "predefined"
                     ELSE "pass"
           saved == IF context.studio
                    THEN <<Dep("save_query_from_human_in_postgres", save)>> ELSE <<>>
           cleared == IF AnyRaised(saved) \/ branch \notin {"stop", "phone"} THEN <<>>
                      ELSE <<Dep(IF branch = "stop" THEN "delete_history_messages"
                                 ELSE "delete_personal_data", deleted)>>
           reloaded == IF AnyRaised(saved) \/ cleared = <<>> \/ AnyRaised(cleared) THEN <<>>
                       ELSE <<Dep("data_user_info", info)>>
           calls == saved \o cleared \o reloaded
       IN
       /\ deps' = deps \o calls
       /\ IF AnyRaised(calls)
          THEN HookFailed("VerifyInputMessage") /\ UNCHANGED <<data, user_companychat>>
          ELSE /\ user_companychat' = context.user_companychat
               /\ CASE branch = "stop" ->
                        /\ messages' = Append(messages, AIMessage(MEMORY_CLEARED))
                        /\ data' = DataUserInfo(data)
                        /\ step' = "end"
                    [] branch = "phone" ->
                        /\ messages' = Append(messages, AIMessage(PERSONAL_DATA_DELETED))
                        /\ data' = DataUserInfo(data)
                        /\ step' = "end"
                    [] branch = "predefined" ->
                        /\ messages' = Append(messages, AIMessage(last_message))
                        /\ step' = "end"
                        /\ UNCHANGED data
                    [] OTHER ->
                        /\ step' = "GetDatabaseMiddleware"
                        /\ UNCHANGED <<messages, data>>
    /\ UNCHANGED <<context, notBeforeVars>>

\* GetDatabaseMiddleware._LIST_DEFAULT_KEYS: state_data.get(key) or data.get(key) or []
ListDefault(x) == Or(Or(x, PNone), PList(<<>>))

\* the bag GetDatabaseMiddleware builds from what data_collection_postgres
\* gathered (the channel's port and id, the client's phone and contact data)
\* and from the bag of the previous run
Gathered(state_data, phone, onboarding) ==
    LET dialog_state == IF state_data.dialog_state = "" THEN "new" ELSE state_data.dialog_state IN
    [ mcp_port |-> state_data.mcp_port, channel_id |-> state_data.channel_id, phone |-> phone,
      consent |-> state_data.consent, email |-> state_data.email,
      first_name |-> state_data.first_name, last_name |-> state_data.last_name,
      dialog_state |-> dialog_state, dialog_state_in |-> dialog_state,
      items_search |-> ListDefault(state_data.items_search),
      item_selected |-> ListDefault(state_data.item_selected),
      available_time |-> ListDefault(state_data.available_time),
      available_sequences |-> ListDefault(state_data.available_sequences),
      office_id |-> ListDefault(state_data.office_id),
      desired_date |-> ListDefault(state_data.desired_date),
      desired_time |-> ListDefault(state_data.desired_time),
      desired_master |-> ListDefault(state_data.desired_master),
      user_records |-> PNone, onboarding |-> onboarding ]

\* GetDatabaseMiddleware.abefore_agent
GetDatabaseMiddleware(collected, phone, crm) ==
    /\ step = "GetDatabaseMiddleware"
    /\ LET lookup == /\ collected /= "raised"
                     /\ data.mcp_port = 5020
                     /\ data.onboarding = PNone
                     /\ Truthy(phone)
           calls == <<Dep("data_collection_postgres", collected)>>
                        \o (IF lookup THEN <<Dep("fetch_crm_go_client_info", crm)>> ELSE <<>>)
           onboarding ==
                IF data.mcp_port /= 5020 THEN PNone
                ELSE IF data.onboarding /= PNone THEN data.onboarding
                ELSE IF ~lookup THEN PNone
                ELSE IF crm = "found"
                THEN PDict(<<[k |-> "onboarding_status", x |-> PBool(TRUE)]>>)
                ELSE PDict(<<[k |-> "onboarding_status", x |-> PBool(FALSE)],
                             [k |-> "onboarding_stage", x |-> PInt(0)]>>)
       IN
       /\ deps' = deps \o calls
       /\ IF AnyRaised(calls)
          THEN HookFailed("GetDatabaseMiddleware") /\ UNCHANGED data
          ELSE /\ data' = Gathered(data, phone, onboarding)
               /\ step' = "GetKeyWordMiddleware"
               /\ UNCHANGED messages
    /\ UNCHANGED <<context, user_companychat, notBeforeVars>>

\* pg_rows_to_products of the promo rows found for a key word
PromoItems == PList(<<ParseItem(Product("promo-1"))>>)

\* GetKeyWordMiddleware.abefore_agent
GetKeyWordMiddleware(promo) ==
    /\ step = "GetKeyWordMiddleware"
    /\ deps' = Append(deps, Dep("fetch_key_words", promo))
    /\ IF promo = "raised"
       THEN HookFailed("GetKeyWordMiddleware") /\ UNCHANGED data
       ELSE /\ data' = IF promo = "found"
                       THEN [data EXCEPT !.items_search = PromoItems, !.dialog_state = "promo"]
                       ELSE data
            /\ step' = "agent"
            /\ UNCHANGED messages
    /\ UNCHANGED <<context, user_companychat, notBeforeVars>>

\* --- the runs explored ---
Spellings(word) == {word, [i \in 1..Len(word) |-> CHOOSE u \in {Uppercase[j] : j \in 1..Len(Uppercase)} : LowerChar(u) = word[i]],
                    [i \in 1..Len(word) |-> IF i = 1 THEN CHOOSE u \in {Uppercase[j] : j \in 1..Len(Uppercase)} : LowerChar(u) = word[i] ELSE word[i]]}

HumanTexts ==
    PREDEFINED_MESSAGES \cup Spellings(PREDEFINED_STOP) \cup Spellings(PREDEFINED_DEL_PERSONAL_DATA)
        \cup { <<" ">> \o PREDEFINED_STOP \o <<"\n">>, PREDEFINED_STOP \o <<"!">>,
               Lower(<<"A", "j", "-", "a", "j", "-", "a", "j", ",", "~">>), <<"A", "j", "-", "a", "j", "-", "a", "j", ",", "~">> \o <<" ">>,
               <<>>, <<"p", "r", "i", "v", "e", "t">> }

HumanContents ==
    {[kind |-> "str", text |-> t, parts |-> <<>>] : t \in HumanTexts}
        \cup {[kind |-> "list", text |-> <<>>, parts |-> <<[kind |-> "dict", key |-> k, text |-> t]>>] :
                k \in {"text", "type"}, t \in {PREDEFINED_STOP, <<"V", "a", "s", "h", "e", "~">>}}
        \cup {[kind |-> "list", text |-> <<>>, parts |-> <<>>]}

\* the bag the previous run left
PriorBags ==
    { Bag(5002), Bag(5020),
      [Bag(5002) EXCEPT !.dialog_state = "selecting",
                        !.items_search = PList(<<ParseItem(Product("1-1"))>>),
                        !.office_id = PNone],
      [Bag(5020) EXCEPT !.onboarding = PDict(<<[k |-> "onboarding_status", x |-> PBool(FALSE)],
                                               [k |-> "onboarding_stage", x |-> PInt(1)]>>)],
      \* the client was shown their bookings and chose a date in the previous run
      [Bag(5002) EXCEPT !.user_records = Records, !.desired_date = PStr("2025-01-01")] }

BeforeIdle ==
    /\ messages = <<>>
    /\ context = [studio |-> FALSE, user_companychat |-> "u1"]
    /\ user_companychat = "unset"
    /\ step = "idle"
    /\ deps = <<>>

BeforeInit ==
    /\ messages \in {<<>>} \cup {<<HumanMessage(c)>> : c \in HumanContents}
    /\ context \in [studio : BOOLEAN, user_companychat : {"u1"}]
    /\ user_companychat = "unset"
    /\ step = "VerifyInputMessage"
    /\ deps = <<>>
    /\ data \in PriorBags
    /\ tools_result = <<>>
    /\ lastCall = NoCall

BeforeNext ==
    \/ \E save \in {"ok", "absorbed", "raised"}, deleted \in {"ok", "absorbed", "raised"},
          info \in {"ok", "raised"} : VerifyInputMessage(save, deleted, info)
    \/ \E collected \in {"ok", "raised"}, phone \in {PNone, PStr("+7900")},
          crm \in {"found", "not_found", "raised"} : GetDatabaseMiddleware(collected, phone, crm)
    \/ \E promo \in {"none", "found", "raised"} : GetKeyWordMiddleware(promo)

(***************************************************************************)
(* Properties of the before-agent hooks                                    *)
(***************************************************************************)
\* the text the client sent and the reply of the run, if any
Sent == IF messages = <<>> THEN <<>> ELSE ContentToText(messages[1].content, <<>>)
Reply ==
    IF messages /= <<>> /\ messages[Len(messages)].type = "ai"
    THEN <<messages[Len(messages)].content.text>> ELSE <<>>
VerifyRan == step \notin {"idle", "VerifyInputMessage"}
StopSpellings == {<<"s", "t", "o", "p">>, <<"S", "T", "O", "P">>, <<"S", "t", "o", "p">>}

\* C7 as stated: "stop" in any letter-casing as the sole message always gives
\* the reply "memory cleared" and ends the run.
C7_AsClaimed ==
    (VerifyRan /\ Sent \in StopSpellings) =>
        /\ step = "end"
        /\ Reply = <<MEMORY_CLEARED>>

\* C7, amended: "stop" in any letter-casing as the sole message always ends
\* the run before any model or tool activity; the reply is "memory cleared"
\* when no dependency call of the step (the persisting of the message in a
\* console run, the deletion of the history, the reload of the user's data)
\* raised, and the generic "temporarily unavailable" reply when one did.
C7_StopClears ==
    (VerifyRan /\ Sent \in StopSpellings) =>
        /\ step = "end"
        /\ Reply = IF AnyRaised(deps) THEN <<BOT_UNAVAILABLE>> ELSE <<MEMORY_CLEARED>>
        /\ ~AnyRaised(deps) =>
              /\ \E i \in 1..Len(deps) : deps[i].name = "delete_history_messages"
              /\ deps[Len(deps)].name = "data_user_info"

C7_Witness ==
    /\ Sent = <<"S", "t", "o", "p">>
    /\ context.studio
    /\ step = "end"
    /\ Reply = <<MEMORY_CLEARED>>
    /\ data.dialog_state = ""
    /\ Len(deps) = 3

\* C8 as stated: a message that is exactly one of the 8 predefined refusal
\* strings gets exactly that string as the reply and the run ends.
C8_AsClaimed ==
    (VerifyRan /\ Sent \in PREDEFINED_MESSAGES) =>
        /\ step = "end"
        /\ Reply = <<Sent>>

\* C8, amended: a message that is exactly one of the 8 predefined refusal
\* strings ends the run before any model or tool activity; the reply is that
\* string, except in a console run in which the persisting of the message
\* raised, where it is the generic "temporarily unavailable" reply.
C8_PredefinedEchoed ==
    (VerifyRan /\ Sent \in PREDEFINED_MESSAGES) =>
        /\ step = "end"
        /\ Reply = IF AnyRaised(deps) THEN <<BOT_UNAVAILABLE>> ELSE <<Sent>>
        /\ AnyRaised(deps) => context.studio
        /\ \A i \in 1..Len(deps) : deps[i].name = "save_query_from_human_in_postgres"
        /\ data \in PriorBags

C8_Witness ==
    /\ Sent = <<"A", "j", "-", "a", "j", "-", "a", "j", ",", "~">>
    /\ context.studio
    /\ deps = <<Dep("save_query_from_human_in_postgres", "absorbed")>>
    /\ step = "end"
    /\ Reply = <<<<"A", "j", "-", "a", "j", "-", "a", "j", ",", "~">>>>

\* C9 as stated: any failure of a dependency in a before-agent hook is
\* replaced by the generic reply and the end of the run, and no exception
\* leaves the hook.
C9_AsClaimed ==
    /\ step /= "raised"
    /\ (\E i \in 1..Len(deps) : deps[i].outcome \in {"absorbed", "raised"}) =>
          /\ step = "end"
          /\ Reply = <<BOT_UNAVAILABLE>>

\* C9, amended: in each of the three before-agent hooks an exception raised
\* by a dependency is swallowed: the hook answers with the generic reply and
\* ends the run, no later hook runs, and no exception leaves the hook.  (A
\* failure that the dependency absorbs itself is not an exception.)
C9_ExceptionsSwallowed ==
    /\ step /= "raised"
    /\ AnyRaised(deps) =>
          /\ step = "end"
          /\ Reply = <<BOT_UNAVAILABLE>>
          /\ deps[Len(deps)].outcome = "raised"
          /\ \A i \in 1..(Len(deps) - 1) : deps[i].outcome /= "raised"

C9_Witness ==
    /\ context.studio
    /\ Len(deps) = 4
    /\ deps[1].outcome = "absorbed"
    /\ deps[3] = Dep("fetch_crm_go_client_info", "not_found")
    /\ deps[4] = Dep("fetch_key_words", "raised")
    /\ step = "end"
    /\ Reply = <<BOT_UNAVAILABLE>>

\* the dependency calls of the run, by name, and those after the persisting
\* of the query
DepNames == [i \in 1..Len(deps) |-> deps[i].name]
SaveQuery == "save_query_from_human_in_postgres"
AfterSave == IF deps /= <<>> /\ deps[1].name = SaveQuery THEN Tail(DepNames) ELSE DepNames
DelSpellings == Spellings(PREDEFINED_DEL_PERSONAL_DATA)

\* C28 as stated: a console message matched by the stop word, the
\* personal-data deletion word or a predefined refusal string ends the run
\* without the persisting of the query having run.
C28_AsClaimed ==
    (/\ VerifyRan /\ context.studio
     /\ Sent \in StopSpellings \cup DelSpellings \cup PREDEFINED_MESSAGES)
    => \A i \in 1..Len(deps) : deps[i].name /= SaveQuery

\* C28, amended: input verification of a testing-console call first persists
\* the raw query to history, and of no other call; then it applies its rules
\* in order - stop word (history deleted, user data reloaded), personal-data
\* deletion word (personal data deleted, user data reloaded), predefined
\* refusal strings (no further call) - each of which ends the run.
C28_SaveThenRules ==
    VerifyRan =>
        /\ context.studio => deps /= <<>> /\ deps[1].name = SaveQuery
        /\ \A i \in 1..Len(deps) : deps[i].name = SaveQuery => i = 1 /\ context.studio
        /\ Sent \in StopSpellings \cup DelSpellings \cup PREDEFINED_MESSAGES => step = "end"
        /\ ~AnyRaised(deps) =>
              /\ Sent \in StopSpellings => AfterSave = <<"delete_history_messages", "data_user_info">>
              /\ Sent \in DelSpellings => AfterSave = <<"delete_personal_data", "data_user_info">>
              /\ Sent \in PREDEFINED_MESSAGES => AfterSave = <<>>

C28_Witness ==
    /\ context.studio
    /\ Sent = <<"P", "H", "O", "N", "E">>
    /\ step = "end"
    /\ DepNames = <<SaveQuery, "delete_personal_data", "data_user_info">>
    /\ Reply = <<PERSONAL_DATA_DELETED>>

\* the funnel fields of the bag
FunnelFields ==
    {"items_search", "item_selected", "available_time", "available_sequences", "office_id",
     "desired_date", "desired_time", "desired_master", "user_records"}

\* the business-data load of this step went through
Loaded == step = "GetDatabaseMiddleware" /\ step' = "GetKeyWordMiddleware"

\* C24 as stated: after the business-data load every funnel field has the
\* value the previous run left when it left one, and is empty otherwise; the
\* stage is the previous run's, or "new"; dialog_state_in is that stage.
C24_AsClaimed ==
    [][Loaded =>
          /\ \A f \in FunnelFields :
                IF Truthy(data[f]) THEN data'[f] = data[f] ELSE ~Truthy(data'[f])
          /\ data'.dialog_state = (IF data.dialog_state = "" THEN "new" ELSE data.dialog_state)
          /\ data'.dialog_state_in = data'.dialog_state]_vars

(***************************************************************************)
(* Part 4: ToolSelectorMiddleware (src/src/zena_middleware_wrap_model.py)  *)
(***************************************************************************)
\* data.get("mcp_port") of a bag without a port
NoPort == 0

\* resolve_backend_name
ResolveBackendName(mcp_port) ==
    IF mcp_port \in {15020, 5020} THEN "alena_5020"
    ELSE IF mcp_port \in {15007, 5007} THEN "list_5007"
    ELSE "classic"

ORDER == <<"new", "selecting", "remember", "available_time", "postrecord">>

GLOBAL_TOOLS ==
    { "zena_faq", "zena_services", "zena_remember_office", "zena_remember_master",
      "zena_remember_desired_date", "zena_remember_desired_time" }

STAGE_TOOLS_CLASSIC ==
    [ new |-> {"zena_product_search"},
      selecting |-> {"zena_product_search", "zena_remember_product_id",
                     "zena_remember_product_id_list"},
      remember |-> {"zena_avaliable_time_for_master", "zena_available_time_for_master_list"},
      available_time |-> {"zena_record_time", "zena_avaliable_time_for_master",
                          "zena_available_time_for_master_list"},
      postrecord |-> {"zena_recommendations"} ]

POSTRECORD_OVERRIDE == {"zena_recommendations"}

CLASSIC_PORTS == {4001, 5001, 4002, 5002, 4005, 5005, 4006, 5006, 5021, 4021}
PORTS_4007_5007 == {4007, 5007}
PORT_5020 == {5020}

\* str(x or "").strip(), as a truth value; BlankStrings are the strings of
\* the runs explored that strip() empties
BlankStrings == {"", " "}
HasText(x) == Truthy(x) /\ ~(x.t = "str" /\ x.s \in BlankStrings)

HasOfficeAndDate_Either(d) == HasText(d.office_id) \/ HasText(d.desired_date)
\* _has_office_and_date
HasOfficeAndDate(d) == HasText(d.office_id) /\ HasText(d.desired_date)

\* _has_desired_time
HasDesiredTime(d) == HasText(d.desired_time)

HasContactBundle_NoEmail(d) ==
    /\ Truthy(d.consent)
    /\ HasText(d.first_name) \/ HasText(d.last_name)
    /\ HasText(d.phone)

\* _has_contact_bundle
HasContactBundle(d) ==
    /\ Truthy(d.consent)
    /\ HasText(d.first_name) \/ HasText(d.last_name)
    /\ HasText(d.phone)
    /\ HasText(d.email)

\* _inherited_stage_tools: the stage tools of every stage up to the current one
InheritedStageTools(dialog_state, stage_map) ==
    LET known == \E i \in 1..Len(ORDER) : ORDER[i] = dialog_state
        st == IF known THEN dialog_state ELSE "new"
        idx == CHOOSE i \in 1..Len(ORDER) : ORDER[i] = st
    IN  UNION {IF ORDER[i] \in DOMAIN stage_map THEN stage_map[ORDER[i]] ELSE {} : i \in 1..idx}

\* _apply_guards
ApplyGuards(dialog_state, allowed, d) ==
    LET slots == IF dialog_state \in {"remember", "available_time"} /\ ~HasOfficeAndDate(d)
                 THEN {"zena_avaliable_time_for_master", "zena_available_time_for_master_list"}
                 ELSE {}
        booking == IF dialog_state = "available_time" /\ (~HasContactBundle(d) \/ ~HasDesiredTime(d))
                   THEN {"zena_record_time"}
                   ELSE {}
    IN  (allowed \ slots) \ booking

\* _allowed_for_classic_ports
AllowedForClassicPorts(dialog_state, d, base) ==
    IF dialog_state = "postrecord" THEN POSTRECORD_OVERRIDE
    ELSE ApplyGuards(dialog_state, base \cup InheritedStageTools(dialog_state, STAGE_TOOLS_CLASSIC), d)

\* _allowed_for_4007_5007
AllowedFor4007_5007(dialog_state, d, base) ==
    IF dialog_state = "postrecord" THEN {"zena_recommendations"}
    ELSE LET staged ==
                CASE dialog_state = "new" -> {"zena_record_product_id_list"}
                  [] dialog_state = "remember" ->
                        {"zena_remember_product_id_list", "zena_avaliable_time_for_master_list"}
                  [] dialog_state = "available_time" ->
                        {"zena_remember_product_id_list", "zena_avaliable_time_for_master_list",
                         "zena_record_time"}
                  [] OTHER -> {}
             slots == IF dialog_state \in {"remember", "available_time"} /\ ~HasOfficeAndDate(d)
                      THEN {"zena_avaliable_time_for_master_list"} ELSE {}
             booking == IF dialog_state = "available_time"
                            /\ (~HasContactBundle(d) \/ ~HasDesiredTime(d))
                        THEN {"zena_record_time"} ELSE {}
         IN  ((base \cup staged) \ slots) \ booking

AllowedFor5020_NoGate(dialog_state, d, base) ==
    LET onboarding == Or(d.onboarding, PDict(<<>>))
        onboarding_status == Get(onboarding, "onboarding_status")
    IN  IF (onboarding_status = PNone \/ onboarding_status = PBool(TRUE)) /\ HasText(d.phone)
        THEN base \cup {"zena_get_client_statistics"}
        ELSE base \cup {"zena_update_client_info"}
\* _allowed_for_5020
AllowedFor5020(dialog_state, d, base) ==
    LET onboarding == Or(d.onboarding, PDict(<<>>))
        onboarding_stage == Get(onboarding, "onboarding_stage")
        onboarding_status == Get(onboarding, "onboarding_status")
    IN  IF (onboarding_status = PNone \/ onboarding_status = PBool(TRUE)) /\ HasText(d.phone)
        THEN base \cup {"zena_get_client_statistics"}
                \cup (CASE dialog_state = "new" -> {"zena_get_client_lessons"}
                        [] dialog_state = "selecting" -> {"zena_remember_lesson_id"}
                        [] dialog_state = "remember" -> {"zena_update_client_lesson"}
                        [] OTHER -> {})
        ELSE IF onboarding_stage.t = "int" /\ onboarding_stage.v[1] >= 5
        THEN base \cup {"zena_update_client_info"}
        ELSE base

\* _build_allowed_tools
BuildAllowedTools(mcp_port, dialog_state, d) ==
    LET base == GLOBAL_TOOLS IN
    IF mcp_port = NoPort THEN base
    ELSE IF mcp_port \in PORT_5020 THEN AllowedFor5020(dialog_state, d, base)
    ELSE IF mcp_port \in PORTS_4007_5007 THEN AllowedFor4007_5007(dialog_state, d, base)
    ELSE IF mcp_port \in CLASSIC_PORTS THEN AllowedForClassicPorts(dialog_state, d, base)
    ELSE base

\* (data.get("dialog_state") or "new").strip(); the stages the program writes
\* have no surrounding whitespace
DialogState(d) == IF d.dialog_state = "" THEN "new" ELSE d.dialog_state

SelectModel_PostrecordOnly(d) ==
    LET dialog_state == DialogState(d) IN
    IF d.mcp_port \in PORTS_4007_5007
    THEN IF dialog_state \in {"new", "available_time"} THEN "model_4o" ELSE "model_4o_mini"
    ELSE IF d.mcp_port \in PORT_5020 THEN "model_4o_mini"
    ELSE IF d.mcp_port \in CLASSIC_PORTS
    THEN IF dialog_state = "postrecord" THEN "model_4o" ELSE "model_4o_mini"
    ELSE "model_4o_mini"

\* _select_model
SelectModel(d) ==
    LET dialog_state == DialogState(d) IN
    IF d.mcp_port \in PORTS_4007_5007
    THEN IF dialog_state \in {"new", "available_time"} THEN "model_4o" ELSE "model_4o_mini"
    ELSE IF d.mcp_port \in PORT_5020 THEN "model_4o_mini"
    ELSE IF d.mcp_port \in CLASSIC_PORTS
    THEN IF dialog_state \in {"new", "remember", "postrecord"} THEN "model_4o" ELSE "model_4o_mini"
    ELSE "model_4o_mini"

\* the tools create_agent_mcp registered: every tool the selection or a
\* registry of postprocessors names
AllTools ==
    ToolNames \cup GLOBAL_TOOLS \cup UNION {STAGE_TOOLS_CLASSIC[st] : st \in DOMAIN STAGE_TOOLS_CLASSIC}
        \cup {"zena_record_product_id_list", "zena_avaliable_time_for_master_list",
              "zena_get_client_statistics"}

\* ToolSelectorMiddleware.awrap_model_call: request.tools and request.model
\* are replaced, then the handler (the model) is called
AwrapModelCall ==
    /\ step = "agent"
    /\ LET allowed == BuildAllowedTools(data.mcp_port, DialogState(data), data) IN
       request' = [tools |-> {tool \in request.tools : tool \in allowed},
                   model |-> SelectModel(data)]
    /\ step' = "model"
    /\ UNCHANGED <<data, notSelVars>>

\* --- the bags explored ---
SelectPorts == {NoPort, 5002, 5024, 4007, 5007, 15007, 5020, 15020}
AlenaPorts == {5020, 15020}
Stages == {"", "new", "selecting", "remember", "available_time", "postrecord", "promo"}
Contacts ==
    { [consent |-> PNone, phone |-> PNone, email |-> PNone, first_name |-> PNone,
       last_name |-> PNone],
      [consent |-> PBool(TRUE), phone |-> PStr("+7900"), email |-> PNone, first_name |-> PNone,
       last_name |-> PNone],
      [consent |-> PBool(TRUE), phone |-> PStr("+7900"), email |-> PNone,
       first_name |-> PStr("Anna"), last_name |-> PNone],
      [consent |-> PBool(TRUE), phone |-> PStr("+7900"), email |-> PStr("a@b.c"),
       first_name |-> PNone, last_name |-> PStr(" ")],
      [consent |-> PBool(TRUE), phone |-> PStr("+7900"), email |-> PStr("a@b.c"),
       first_name |-> PStr("Anna"), last_name |-> PNone],
      [consent |-> PBool(TRUE), phone |-> PStr("+7900"), email |-> PStr("a@b.c"),
       first_name |-> PNone, last_name |-> PStr("Lee")],
      [consent |-> PBool(FALSE), phone |-> PStr("+7900"), email |-> PStr("a@b.c"),
       first_name |-> PStr("Anna"), last_name |-> PNone],
      [consent |-> PBool(TRUE), phone |-> PStr(" "), email |-> PStr("a@b.c"),
       first_name |-> PStr("Anna"), last_name |-> PNone] }
Onboardings ==
    { PNone,
      PDict(<<[k |-> "onboarding_status", x |-> PBool(FALSE)], [k |-> "onboarding_stage", x |-> PInt(5)]>>),
      PDict(<<[k |-> "onboarding_status", x |-> PBool(TRUE)]>>) }

SelectBags ==
    { [Bag(port) EXCEPT !.dialog_state = st, !.dialog_state_in = st,
                        !.office_id = office_id, !.desired_date = desired_date,
                        !.desired_time = desired_time,
                        !.consent = contact.consent, !.phone = contact.phone,
                        !.email = contact.email, !.first_name = contact.first_name,
                        !.last_name = contact.last_name, !.user_records = user_records,
                        !.onboarding = IF port \in AlenaPorts THEN onboarding ELSE PNone] :
        port \in SelectPorts, st \in Stages,
        office_id \in {PNone, PList(<<>>), PStr(" "), PStr("1")},
        desired_date \in {PList(<<>>), PStr(""), PStr("2025-01-01")},
        desired_time \in {PList(<<>>), PStr("10:00")},
        contact \in Contacts, onboarding \in Onboardings,
        user_records \in {PNone, Records} }

NoRequest == [tools |-> AllTools, model |-> "model_4o_mini"]

SelectIdle == request = NoRequest

SelectInit ==
    /\ request = NoRequest
    /\ data \in SelectBags
    /\ tools_result = <<>>
    /\ lastCall = NoCall
    /\ messages = <<>>
    /\ context = [studio |-> FALSE, user_companychat |-> "u1"]
    /\ user_companychat = "u1"
    /\ step = "agent"
    /\ deps = <<>>

SelectNext == AwrapModelCall

(***************************************************************************)
(* Properties of the tool selection                                        *)
(***************************************************************************)
\* the three spellings under which the selection names a slot-search tool
SlotSearchTools ==
    { "zena_avaliable_time_for_master", "zena_available_time_for_master_list",
      "zena_avaliable_time_for_master_list" }
EmptyOrAbsent(x) == x \in {PNone, PStr(""), PList(<<>>)}

\* C10: on a port of the classic backend, when office_id or desired_date of
\* the bag is empty or absent, the tools admitted to a model call at stage
\* remember or available_time include no slot-search tool.
C10_SlotGuard ==
    ( /\ step = "model"
      /\ ResolveBackendName(data.mcp_port) = "classic"
      /\ data.dialog_state \in {"remember", "available_time"}
      /\ EmptyOrAbsent(data.office_id) \/ EmptyOrAbsent(data.desired_date) )
    => request.tools \cap SlotSearchTools = {}

C10_Witness ==
    /\ step = "model"
    /\ data.mcp_port = 5002
    /\ data.dialog_state = "available_time"
    /\ data.office_id = PStr("1")
    /\ data.desired_date = PStr("")
    /\ request.tools \cap SlotSearchTools = {}
    /\ "zena_record_time" \in request.tools
    /\ "zena_product_search" \in request.tools

\* a field of the bag that holds a value: neither absent, nor empty, nor blank
Given(x) == ~EmptyOrAbsent(x) /\ x # PStr(" ")
Selected == step = "model"
ClassicAt(stage) ==
    Selected /\ ResolveBackendName(data.mcp_port) = "classic" /\ data.dialog_state = stage

\* C11 as the claim states it: on the classic backend at stage available_time
\* the booking-finalize tool is admitted exactly when the bag holds consent,
\* a phone number and a desired time.
C11_AsClaimed ==
    ClassicAt("available_time") =>
        ( "zena_record_time" \in request.tools
            <=> /\ data.consent = PBool(TRUE)
                /\ Given(data.phone)
                /\ Given(data.desired_time) )

\* C11 (amended): on the classic backend at stage available_time the
\* booking-finalize tool is admitted exactly when the port is one the
\* selector lists (CLASSIC_PORTS or 4007) and the bag holds consent, a phone
\* number, an email, a first or a last name, and a desired time.
C11_BookingGuard ==
    ClassicAt("available_time") =>
        ( "zena_record_time" \in request.tools
            <=> /\ data.mcp_port \in CLASSIC_PORTS \cup {4007}
                /\ data.consent = PBool(TRUE)
                /\ Given(data.phone)
                /\ Given(data.email)
                /\ Given(data.first_name) \/ Given(data.last_name)
                /\ Given(data.desired_time) )

C11_Witness ==
    /\ ClassicAt("available_time")
    /\ data.mcp_port = 5002
    /\ data.consent = PBool(TRUE)
    /\ data.phone = PStr("+7900")
    /\ data.email = PStr("a@b.c")
    /\ data.first_name = PNone
    /\ data.last_name = PStr("Lee")
    /\ data.desired_time = PStr("10:00")
    /\ "zena_record_time" \in request.tools

\* the tool that cancels an existing booking
CancelTool == "zena_record_delete"

\* C12: for a bag with non-empty user_records the selection admits the
\* cancel tool when no desired date is chosen, and the slot-search tools
\* without the cancel tool when a desired date is chosen; the cancel tool
\* and the slot-search tools are never admitted together.
C12_AsClaimed ==
    (Selected /\ Given(data.user_records)) =>
        /\ IF Given(data.desired_date)
           THEN CancelTool \notin request.tools /\ request.tools \cap SlotSearchTools # {}
           ELSE CancelTool \in request.tools
        /\ ~(CancelTool \in request.tools /\ request.tools \cap SlotSearchTools # {})

\* C13: on every port that resolves to the classic backend, the tools
\* admitted at stage postrecord are exactly the recommendations tool,
\* whatever else the bag holds.
C13_AsClaimed ==
    (ClassicAt("postrecord") /\ data.mcp_port # NoPort)
        => request.tools = {"zena_recommendations"}

\* C14: at every dialog stage the admitted tools contain FAQ lookup,
\* services lookup, the four remember tools, the view of existing bookings
\* and the escalation to an administrator.
C14_AsClaimed ==
    Selected =>
        { "zena_faq", "zena_services", "zena_remember_office", "zena_remember_master",
          "zena_remember_desired_date", "zena_remember_desired_time",
          "zena_records", "zena_call_administrator" } \subseteq request.tools

\* the stage a bag is at; a bag without a stage is at stage new
StageIn(stages) ==
    \/ data.dialog_state \in stages
    \/ data.dialog_state = "" /\ "new" \in stages
FullSize == request.model = "model_4o"
Lightweight == request.model = "model_4o_mini"

\* C15 as the claim states it: list_5007 takes the full-size model exactly
\* at new and available_time, alena_5020 always the lightweight one, and
\* classic the full-size model exactly at postrecord.
C15_AsClaimed ==
    Selected =>
        /\ FullSize \/ Lightweight
        /\ ResolveBackendName(data.mcp_port) = "list_5007"
                => (FullSize <=> StageIn({"new", "available_time"}))
        /\ ResolveBackendName(data.mcp_port) = "alena_5020" => Lightweight
        /\ ResolveBackendName(data.mcp_port) = "classic"
                => (FullSize <=> StageIn({"postrecord"}))

\* C15 (amended): on ports 5007 and 4007 the full-size model is chosen
\* exactly at new and available_time; on alena_5020 the lightweight model
\* always; on the ports the selector lists as classic the full-size model
\* exactly at new, remember and postrecord; on every other port the
\* lightweight model always.
C15_ModelSelection ==
    Selected =>
        /\ FullSize \/ Lightweight
        /\ data.mcp_port \in {5007, 4007} => (FullSize <=> StageIn({"new", "available_time"}))
        /\ ResolveBackendName(data.mcp_port) = "alena_5020" => Lightweight
        /\ data.mcp_port \in CLASSIC_PORTS
                => (FullSize <=> StageIn({"new", "remember", "postrecord"}))
        /\ data.mcp_port \notin CLASSIC_PORTS \cup {5007, 4007} => Lightweight

C15_Witness ==
    /\ Selected
    /\ data.mcp_port = 5002
    /\ data.dialog_state = "remember"
    /\ FullSize

\* the bag of the call, served through another port
OnPort(port) == [data EXCEPT !.mcp_port = port]
SameBackend(port) ==
    /\ port # NoPort
    /\ data.mcp_port # NoPort
    /\ ResolveBackendName(port) = ResolveBackendName(data.mcp_port)

\* C16: two ports that resolve to the same backend give the same admitted
\* tools and the same model for the same stage and bag.
C16_AsClaimed ==
    Selected =>
        \A port \in SelectPorts :
            SameBackend(port) =>
                /\ request.tools
                     = AllTools \cap BuildAllowedTools(port, DialogState(data), OnPort(port))
                /\ request.model = SelectModel(OnPort(port))

(***************************************************************************)
(* Part 5: the runs of the agent on one thread                             *)
(* (src/src/zena_create_agent.py, zena_middleware_after_model.py,          *)
(*  zena_middleware_after_agent.py)                                        *)
(***************************************************************************)
MaxTurns == 3
\* the tool calls explored in one run (ToolCallLimitMiddleware allows 10)
MaxCalls == 1

\* an AIMessage that asks for a tool
AIToolCall(tool_name) ==
    [type |-> "ai", content |-> [kind |-> "str", text |-> <<>>, parts |-> <<>>],
     tool_calls |-> <<tool_name>>]
\* the ToolMessage the tool node appends
ToolReply(tool_name, handled) == [type |-> "tool", content |-> handled.content, name |-> tool_name]
\* getattr(last_message, "tool_calls", None)
ToolCallsOf(message) == IF "tool_calls" \in DOMAIN message THEN message.tool_calls ELSE <<>>

\* data.get("onboarding", {}); the bag holds PNone where the key is absent
OnboardingOf(d) == IF d.onboarding = PNone THEN PDict(<<>>) ELSE d.onboarding

AafterModelData_NoCap(d, msgs) ==
    LET onboarding == OnboardingOf(d)
        onboarding_status == Get(onboarding, "onboarding_status")
        onboarding_stage == IF Has(onboarding, "onboarding_stage")
                            THEN Get(onboarding, "onboarding_stage") ELSE PInt(0)
    IN
    IF \/ d.mcp_port /= 5020
       \/ msgs = <<>>
       \/ msgs[Len(msgs)].type /= "ai"
       \/ ToolCallsOf(msgs[Len(msgs)]) /= <<>>
       \/ onboarding_status = PNone
       \/ Truthy(onboarding_status)
    THEN [data |-> d, raised |-> FALSE]
    ELSE IF ~Has(onboarding, "onboarding_stage")
    THEN [data |-> d, raised |-> TRUE]
    ELSE [data |-> [d EXCEPT !.onboarding =
                        Put(onboarding, "onboarding_stage", PInt(onboarding_stage.v[1] + 1))],
          raised |-> FALSE]

\* GetCRMGOOnboardStage.aafter_model: the bag after the hook; raised is the
\* KeyError of `+= 1` on a mapping without onboarding_stage
AafterModelData(d, msgs) ==
    LET onboarding == OnboardingOf(d)
        onboarding_status == Get(onboarding, "onboarding_status")
        onboarding_stage == IF Has(onboarding, "onboarding_stage")
                            THEN Get(onboarding, "onboarding_stage") ELSE PInt(0)
    IN
    IF \/ d.mcp_port /= 5020
       \/ msgs = <<>>
       \/ msgs[Len(msgs)].type /= "ai"
       \/ ToolCallsOf(msgs[Len(msgs)]) /= <<>>
       \/ onboarding_status = PNone
       \/ Truthy(onboarding_status)
    THEN [data |-> d, raised |-> FALSE]
    ELSE IF onboarding_stage.v[1] < 6
    THEN IF Has(onboarding, "onboarding_stage")
         THEN [data |-> [d EXCEPT !.onboarding =
                            Put(onboarding, "onboarding_stage", PInt(onboarding_stage.v[1] + 1))],
               raised |-> FALSE]
         ELSE [data |-> d, raised |-> TRUE]
    ELSE [data |-> d, raised |-> FALSE]

\* the counter of the bag; a bag without the counter counts as 0
HasStage(d) == Has(OnboardingOf(d), "onboarding_stage")
StageOf(d) == IF HasStage(d) THEN Get(d.onboarding, "onboarding_stage").v[1] ELSE 0
Max(a, b) == IF a >= b THEN a ELSE b

\* a message arrives on the thread and a run of the agent starts
HumanArrives(content) ==
    /\ step \in {"done", "raised"}
    /\ turns < MaxTurns
    /\ turns' = turns + 1
    /\ messages' = Append(messages, HumanMessage(content))
    /\ step' = "VerifyInputMessage"
    /\ deps' = <<>>
    /\ request' = NoRequest
    /\ UNCHANGED <<regVars, toolVars, context, user_companychat, peak, answered, trimVars,
                   notAgentVars>>

\* the tools the model of the threads explored asks for
OnbTools == {"zena_update_client_info"}

\* the model answers the request: a final text, or a call of a tool the
\* request offers
ModelResponds ==
    /\ step = "model"
    /\ \E reply \in {AIMessage(<<"o", "k">>)}
                        \cup {AIToolCall(tool_name) : tool_name \in request.tools \cap OnbTools} :
          /\ ToolCallsOf(reply) /= <<>> => Len(tools_result) < MaxCalls
          /\ messages' = Append(messages, reply)
    /\ step' = "after_model"
    /\ UNCHANGED <<regVars, toolVars, context, user_companychat, deps, selVars, onbVars, trimVars, notAgentVars>>

\* GetCRMGOOnboardStage.aafter_model, then the edge to the tools or to the
\* after-agent hooks
AafterModel ==
    /\ step = "after_model"
    /\ LET after == AafterModelData(data, messages) IN
       /\ data' = after.data
       /\ peak' = Max(peak, StageOf(after.data))
       /\ answered' = IF ToolCallsOf(messages[Len(messages)]) = <<>>
                      THEN answered + 1 ELSE answered
       /\ step' = IF after.raised THEN "raised"
                  ELSE IF ToolCallsOf(messages[Len(messages)]) /= <<>> THEN "tools"
                  ELSE "end"
    /\ UNCHANGED <<regVars, tools_result, lastCall, messages, context, user_companychat, deps,
                   selVars, turns, trimVars, notAgentVars>>

\* the tool node: awrap_tool_call around the tool the model asked for, then
\* the ToolMessage and the next model call
ToolsNode(tool_args, handled) ==
    /\ step = "tools"
    /\ LET tool_name == ToolCallsOf(messages[Len(messages)])[1]
           parsed == Parsed(handled)
       IN
       IF handled.kind = "raise" \/ ~IsPayload(parsed)
       THEN /\ step' = "raised"
            /\ UNCHANGED <<data, tools_result, messages>>
       ELSE LET env == NormalizeEnvelope(parsed)
                pp == RegistryGet(RegistryFor(data), tool_name)
                out == RunPostProcessor(pp, data, env, tool_args)
            IN  /\ data' = out.data
                /\ tools_result' = Append(tools_result,
                        [ name |-> tool_name, args |-> tool_args,
                          envelope |-> [success |-> env.success, code |-> env.code, error |-> env.error],
                          result |-> out.result ])
                /\ messages' = Append(messages, ToolReply(tool_name, handled))
                /\ step' = "agent"
    /\ request' = NoRequest
    /\ UNCHANGED <<regVars, lastCall, context, user_companychat, deps, onbVars, trimVars, notAgentVars>>

\* a channel of the state that holds a list: absent (None) until its first
\* update, a list afterwards
Unset == [none |-> TRUE, v |-> <<>>]
ListOf(v) == [none |-> FALSE, v |-> v]
\* the updates a hook can return for such a channel
RESET == [kind |-> "RESET", v |-> <<>>]
ListUpdate(v) == [kind |-> "list", v |-> v]
ItemUpdate(x) == [kind |-> "item", v |-> <<x>>]

add_tools_or_reset_Kept(current, update) ==
    ListOf(IF update.kind = "RESET" THEN current.v ELSE current.v \o update.v)
\* add_tools_or_reset: None counts as [], RESET gives [], an update that is
\* not a list is wrapped in one, and the result is current + update
add_tools_or_reset(current, update) ==
    LET list == IF current.none THEN <<>> ELSE current.v IN
    ListOf(IF update.kind = "RESET" THEN <<>> ELSE list \o update.v)

\* state["tokens"]: absent until the first update
NoTokens == [none |-> TRUE, input_tokens |-> 0, output_tokens |-> 0, total_tokens |-> 0]
TokensOf(inp, out, tot) ==
    [none |-> FALSE, input_tokens |-> inp, output_tokens |-> out, total_tokens |-> tot]

\* ResetData.aafter_agent: the three accumulators get RESET through their
\* reducer, tokens is replaced
ResetData ==
    /\ step = "end"
    /\ tools_args' = add_tools_or_reset(tools_args, RESET)
    /\ tools_name' = add_tools_or_reset(tools_name, RESET)
    /\ tools_result' = add_tools_or_reset(ListOf(tools_result), RESET).v
    /\ tokens' = TokensOf(0, 0, 0)
    /\ step' = "done"
    /\ UNCHANGED <<regVars, data, lastCall, messages, context, user_companychat, deps,
                   selVars, onbVars, trimVars, cacheVars, resVars, loopVars, docVars, closeVars>>

\* --- the threads explored ---
OnbTexts == {PREDEFINED_STOP, <<"p", "r", "i", "v", "e", "t">>}
OnbHandled ==
    { Raised,
      ToolMessage(StrContent(JsonText(Ok(PStr("saved"))))),
      ToolMessage(ListContent(<<[kind |-> "dict", key |-> "text", text |-> JsonText(Err)]>>)) }
Survey(stage) ==
    PDict(<<[k |-> "onboarding_status", x |-> PBool(FALSE)],
            [k |-> "onboarding_stage", x |-> PInt(stage)]>>)
OnbBags ==
    { Bag(5002) }
        \cup { [Bag(5020) EXCEPT !.onboarding = onboarding, !.phone = phone] :
                 onboarding \in {PNone, Survey(4), Survey(6),
                                 PDict(<<[k |-> "onboarding_status", x |-> PBool(TRUE)]>>)},
                 phone \in {PStr("+7900")} }

OnbInit ==
    /\ data \in OnbBags
    /\ tools_result = <<>>
    /\ lastCall = NoCall
    /\ messages = <<>>
    /\ context = [studio |-> FALSE, user_companychat |-> "u1"]
    /\ user_companychat = "unset"
    /\ step = "done"
    /\ deps = <<>>
    /\ request = NoRequest
    /\ peak = StageOf(data)
    /\ turns = 0
    /\ answered = 0

OnbNext ==
    \/ \E text \in OnbTexts : HumanArrives([kind |-> "str", text |-> text, parts |-> <<>>])
    \/ \E deleted \in {"ok", "raised"} : VerifyInputMessage("ok", deleted, "ok")
    \/ \E collected \in {"ok", "raised"}, phone \in {PNone, PStr("+7900")},
          crm \in {"found", "not_found", "raised"} : GetDatabaseMiddleware(collected, phone, crm)
    \/ \E promo \in {"none", "raised"} : GetKeyWordMiddleware(promo)
    \/ AwrapModelCall
    \/ ModelResponds
    \/ AafterModel
    \/ \E handled \in OnbHandled : ToolsNode(PDict(<<>>), handled)
    \/ ResetData

(***************************************************************************)
(* Properties of the onboarding counter                                    *)
(***************************************************************************)
Counter == StageOf(data)
\* the last message is an assistant message that asks for no tool
FinalAnswer ==
    /\ messages /= <<>>
    /\ messages[Len(messages)].type = "ai"
    /\ ToolCallsOf(messages[Len(messages)]) = <<>>
\* the step is the hook that answers a stop or delete-personal-data command
CommandStep ==
    /\ step = "VerifyInputMessage"
    /\ IsStop(LastMessage(messages)) \/ IsDelPersonalData(LastMessage(messages))

\* C17 as the claim states it: over the runs of a thread the counter never
\* exceeds 6, a counter the bag holds is never below a value it held before,
\* and it grows only by 1, in the hook after an assistant message that asks
\* for no tool.
C17_AsClaimed ==
    [][ /\ Counter' <= 6
        /\ HasStage(data)' => Counter' >= peak'
        /\ Counter' > Counter =>
              (Counter' = Counter + 1 /\ step = "after_model" /\ FinalAnswer) ]_vars

\* C17 (amended): over the runs of a thread the counter never exceeds 6, it
\* decreases only when a stop or delete-personal-data command replaces the
\* bag, which drops the counter so that it restarts from 0, and it grows
\* only by 1, in the hook after an assistant message that asks for no tool.
C17_StageCounter ==
    [][ /\ Counter' <= 6
        /\ Counter' < Counter => (CommandStep /\ ~HasStage(data)')
        /\ Counter' > Counter =>
              (Counter' = Counter + 1 /\ step = "after_model" /\ FinalAnswer) ]_vars

C17_Witness ==
    /\ step = "end"
    /\ data.mcp_port = 5020
    /\ HasStage(data)
    /\ Counter = 1
    /\ peak = 5
    /\ FinalAnswer

(***************************************************************************)
(* Part 6: TrimMessages (src/src/zena_middleware_before_model.py)          *)
(***************************************************************************)
MAX_COUNT_MASSAGES == 20
\* the messages the transcripts explored number
MaxMessages == 24

\* messages[-n:]
LastN(msgs, n) == IF Len(msgs) <= n THEN msgs ELSE SubSeq(msgs, Len(msgs) - n + 1, Len(msgs))

NewMessages_IgnoreParity(msgs) == <<msgs[1]>> \o LastN(msgs, MAX_COUNT_MASSAGES)

\* new_messages of TrimMessages.abefore_model
NewMessages(msgs) ==
    LET first_msg == msgs[1]
        recent_messages == IF Len(msgs) % 2 = 0 THEN LastN(msgs, MAX_COUNT_MASSAGES)
                           ELSE LastN(msgs, MAX_COUNT_MASSAGES + 1)
    IN  <<first_msg>> \o recent_messages

\* the n-th message of a transcript: the client and the assistant alternate
Numbered(n) == [type |-> IF n % 2 = 1 THEN "human" ELSE "ai", id |-> n]

\* a message is added to the transcript
Arrives ==
    /\ LET n == IF messages = <<>> THEN 1 ELSE messages[Len(messages)].id + 1 IN
       /\ n <= MaxMessages
       /\ messages' = Append(messages, Numbered(n))
    /\ step' = "arrived"
    /\ UNCHANGED <<regVars, toolVars, context, user_companychat, deps, selVars, onbVars, trimVars, notAgentVars>>

\* TrimMessages.abefore_model: None leaves the transcript as it is; the
\* update [RemoveMessage(REMOVE_ALL_MESSAGES), *new_messages] replaces it
TrimMessages ==
    /\ trimmed_from' = <<messages>>
    /\ messages' = IF messages = <<>> \/ Len(messages) <= MAX_COUNT_MASSAGES
                   THEN messages
                   ELSE NewMessages(messages)
    /\ step' = "trimmed"
    /\ UNCHANGED <<regVars, toolVars, context, user_companychat, deps, selVars, onbVars, notAgentVars>>

TrimInit ==
    /\ messages = <<>>
    /\ trimmed_from = <<>>
    /\ context = [studio |-> FALSE, user_companychat |-> "u1"]
    /\ user_companychat = "unset"
    /\ step = "idle"
    /\ deps = <<>>

TrimNext == Arrives \/ TrimMessages

\* C18: trimming leaves a transcript of at most 20 messages as it is; of a
\* longer transcript it keeps the first message followed by the last 20
\* messages when the length is even and by the last 21 when it is odd.
C18_Trimming ==
    step = "trimmed" =>
        LET before == trimmed_from[1]
            n == Len(before)
            kept == IF n % 2 = 0 THEN 20 ELSE 21
        IN  IF n <= 20
            THEN messages = before
            ELSE /\ Len(messages) = kept + 1
                 /\ messages[1] = before[1]
                 /\ \A i \in 1..kept : messages[1 + i] = before[n - kept + i]

C18_Witness ==
    /\ step = "trimmed"
    /\ Len(trimmed_from[1]) = 23
    /\ Len(messages) = 22
    /\ messages[1].id = 1
    /\ messages[2].id = 3
    /\ messages[22].id = 23

\* the places of a list at which a message stands
PlacesOf(msgs, m) == {i \in 1..Len(msgs) : msgs[i] = m}

\* C39: of every transcript longer than 20 messages the trimmed list is no
\* longer than the transcript and holds no message of the transcript more
\* often than the transcript does.
C39_AsClaimed ==
    (step = "trimmed" /\ Len(trimmed_from[1]) > MAX_COUNT_MASSAGES) =>
        LET before == trimmed_from[1] IN
        /\ Len(messages) <= Len(before)
        /\ \A k \in 1..Len(before) :
              Cardinality(PlacesOf(messages, before[k])) <= Cardinality(PlacesOf(before, before[k]))

(***************************************************************************)
(* Part 7: the masters cache (src/src/zena_request_masters_cache.py)       *)
(***************************************************************************)
TIMEOUT_SECONDS == 120
REFRESH_INTERVAL_SECONDS == 3600
LOCK_TTL_SECONDS == 60

\* the calls of fetch_masters_info explored, numbered in the order they start
NumLookups == 2
Lookups == 1..NumLookups
\* the clock at the start, and the minutes the runs explored last
Epoch == 10000
MaxMinutes == 1
\* the clock moves by a minute
Leaps == {60}
\* 0 stands for no data; the cached roster is 1, the origin serves 2
NoData == 0

Entry(masters, updated_at) == [data |-> masters, updated_at |-> updated_at]
NoEntry == Entry(NoData, 0)
NoLock == [token |-> 0, expires_at |-> 0]

\* found: what the call read ("none" until it has read): no entry, a fresh
\* entry, a stale one; refreshed: the background refreshes that had completed
\* when the call began; during: the calls that were under way when it began
NoLookup ==
    [ pc |-> "idle", via |-> "none", cached_data |-> NoData, found |-> "none",
      masters |-> NoData, began |-> 0, waited |-> FALSE, returned |-> NoData,
      refreshed |-> {}, during |-> {} ]
NoRefresh == [pc |-> "none", via |-> "none", masters |-> NoData, began |-> 0, called |-> FALSE]

\* age = time.time() - updated_at if updated_at else 10**18; age < REFRESH_INTERVAL_SECONDS
IsFreshEntry(updated_at, time) ==
    IF updated_at /= 0 THEN time - updated_at < REFRESH_INTERVAL_SECONDS ELSE FALSE
\* SET key token NX EX: the key is free when absent or expired
RedisLockFree == masters_lock.redis.token = 0 \/ masters_lock.redis.expires_at <= clock

\* the background refreshes that have completed: the roster is written and
\* the task has ended
Completed == {i \in Lookups : refresh[i].pc = "done"}
\* the calls of fetch_masters_info under way
UnderWay == {k \in Lookups : lookups[k].pc \notin {"idle", "done", "raised"}}

\* the cached entry decides the call: a fresh entry is returned, a stale one
\* is returned after the background refresh is created, with no entry the
\* call awaits _fetch_origin: the request is sent
Decide(j, fetch, via, cached_data, cached_meta) ==
    IF cached_data /= NoData
    THEN /\ lookups' = [lookups EXCEPT ![j] =
                [fetch EXCEPT !.pc = "done", !.via = via, !.cached_data = NoData,
                             !.masters = NoData, !.began = 0,
                             !.found = IF IsFreshEntry(cached_meta, clock)
                                       THEN "fresh" ELSE "stale",
                             !.returned = cached_data]]
         /\ refresh' = IF IsFreshEntry(cached_meta, clock) THEN refresh
                       ELSE [refresh EXCEPT ![j] = [NoRefresh EXCEPT !.pc = "created", !.via = via]]
    ELSE /\ lookups' = [lookups EXCEPT ![j] =
                [fetch EXCEPT !.pc = "fetching", !.via = via, !.cached_data = NoData,
                             !.masters = NoData, !.began = clock, !.found = "miss",
                             !.waited = TRUE]]
         /\ UNCHANGED refresh

\* _fetch_masters_memory_fallback up to its first await
MemoryFallback(j, fetch) == Decide(j, fetch, "mem", kv.mem.data, kv.mem.updated_at)

\* fetch_masters_info starts: get_redis_safe, then the first read or the
\* memory fallback
FetchMastersInfo(j) ==
    /\ lookups[j].pc = "idle"
    /\ \A k \in 1..(j - 1) : lookups[k].pc /= "idle"
    /\ LET fetch == [lookups[j] EXCEPT !.refreshed = Completed, !.during = UnderWay] IN
       IF _redis \/ redis_up
       THEN /\ _redis' = TRUE
            /\ lookups' = [lookups EXCEPT ![j] = [fetch EXCEPT !.pc = "get_data", !.via = "redis"]]
            /\ UNCHANGED refresh
       ELSE /\ MemoryFallback(j, fetch)
            /\ UNCHANGED _redis
    /\ UNCHANGED <<clock, redis_up, kv, masters_lock, origin, notCacheVars>>

\* cached_data = await r.get(data_key)
GetData(j) ==
    /\ lookups[j].pc = "get_data"
    /\ IF redis_up
       THEN /\ lookups' = [lookups EXCEPT ![j].pc = "get_meta", ![j].cached_data = kv.redis.data]
            /\ UNCHANGED refresh
       ELSE MemoryFallback(j, lookups[j])
    /\ UNCHANGED <<clock, redis_up, _redis, kv, masters_lock, origin, notCacheVars>>

\* cached_meta = await r.get(meta_key), then the decision
GetMeta(j) ==
    /\ lookups[j].pc = "get_meta"
    /\ IF redis_up
       THEN Decide(j, lookups[j], "redis", lookups[j].cached_data, kv.redis.updated_at)
       ELSE MemoryFallback(j, lookups[j])
    /\ UNCHANGED <<clock, redis_up, _redis, kv, masters_lock, origin, notCacheVars>>

\* masters = await _fetch_origin(channel_id): the origin answers the call: the roster, or an error (a status, a
\* timeout); an error on the Redis path falls back to memory, an error of
\* the fallback leaves the call
OriginAnswers(j, ok) ==
    /\ lookups[j].pc = "fetching"
    /\ IF ok
       THEN IF lookups[j].via = "redis"
            THEN /\ lookups' = [lookups EXCEPT ![j].pc = "write", ![j].began = 0,
                                             ![j].masters = origin.roster]
                 /\ UNCHANGED <<kv, refresh>>
            ELSE /\ lookups' = [lookups EXCEPT ![j].pc = "done", ![j].began = 0,
                                             ![j].returned = origin.roster]
                 /\ kv' = [kv EXCEPT !.mem = Entry(origin.roster, clock)]
                 /\ UNCHANGED refresh
       ELSE IF lookups[j].via = "redis"
            THEN MemoryFallback(j, lookups[j]) /\ UNCHANGED kv
            ELSE /\ lookups' = [lookups EXCEPT ![j].pc = "raised", ![j].began = 0]
                 /\ UNCHANGED <<kv, refresh>>
    /\ UNCHANGED <<clock, redis_up, _redis, masters_lock, origin, notCacheVars>>

\* await _write_cache_redis(r, channel_id, masters); return masters
WriteCache(j) ==
    /\ lookups[j].pc = "write"
    /\ IF redis_up
       THEN /\ kv' = [kv EXCEPT !.redis = Entry(lookups[j].masters, clock)]
            /\ lookups' = [lookups EXCEPT ![j].pc = "done", ![j].returned = lookups[j].masters,
                                        ![j].masters = NoData, ![j].began = 0]
            /\ UNCHANGED refresh
       ELSE MemoryFallback(j, lookups[j]) /\ UNCHANGED kv
    /\ UNCHANGED <<clock, redis_up, _redis, masters_lock, origin, notCacheVars>>

\* the background task starts. Redis: _try_acquire_lock, one attempt; the
\* task that gets the token calls the origin. Memory: _mem_lock.locked() is
\* read, the lock is taken and the origin is called, with no await in between
TryAcquireLock(i) ==
    /\ refresh[i].pc = "created"
    /\ IF refresh[i].via = "redis"
       THEN /\ IF ~redis_up
               THEN /\ refresh' = [refresh EXCEPT ![i].pc = "failed"]
                    /\ UNCHANGED masters_lock
               ELSE IF RedisLockFree
               THEN /\ refresh' = [refresh EXCEPT ![i].pc = "fetching", ![i].began = clock,
                                                  ![i].called = TRUE]
                    /\ masters_lock' = [masters_lock EXCEPT !.redis =
                            [token |-> i, expires_at |-> clock + LOCK_TTL_SECONDS]]
               ELSE /\ refresh' = [refresh EXCEPT ![i].pc = "skipped"]
                    /\ UNCHANGED masters_lock
       ELSE IF masters_lock.mem /= 0
            THEN /\ refresh' = [refresh EXCEPT ![i].pc = "skipped"]
                 /\ UNCHANGED masters_lock
            ELSE /\ refresh' = [refresh EXCEPT ![i].pc = "fetching", ![i].began = clock,
                                               ![i].called = TRUE]
                 /\ masters_lock' = [masters_lock EXCEPT !.mem = i]
    /\ UNCHANGED <<clock, redis_up, _redis, kv, origin, lookups, notCacheVars>>

\* the origin answers the task. Memory: the entry is written and the lock
\* released at once; Redis: the write and the release are awaits of their own
RefreshAnswers(i, ok) ==
    /\ refresh[i].pc = "fetching"
    /\ IF refresh[i].via = "redis"
       THEN /\ refresh' = [refresh EXCEPT
                    ![i].pc = IF ok THEN "fetched" ELSE "failing", ![i].began = 0,
                    ![i].masters = IF ok THEN origin.roster ELSE NoData]
            /\ UNCHANGED <<kv, masters_lock>>
       ELSE /\ refresh' = [refresh EXCEPT
                    ![i].pc = IF ok THEN "done" ELSE "failed", ![i].began = 0,
                    ![i].masters = IF ok THEN origin.roster ELSE NoData]
            /\ kv' = IF ok THEN [kv EXCEPT !.mem = Entry(origin.roster, clock)] ELSE kv
            /\ masters_lock' = [masters_lock EXCEPT !.mem = 0]
    /\ UNCHANGED <<clock, redis_up, _redis, origin, lookups, notCacheVars>>

WriteRefreshed_NoStore(i) ==
    /\ refresh[i].pc = "fetched"
    /\ refresh' = [refresh EXCEPT ![i].pc = "written"]
    /\ UNCHANGED <<clock, redis_up, _redis, kv, masters_lock, origin, lookups, notCacheVars>>

\* await _write_cache_redis(r, channel_id, masters), by the task
WriteRefreshed(i) ==
    /\ refresh[i].pc = "fetched"
    /\ IF redis_up
       THEN /\ kv' = [kv EXCEPT !.redis = Entry(refresh[i].masters, clock)]
            /\ refresh' = [refresh EXCEPT ![i].pc = "written"]
       ELSE /\ refresh' = [refresh EXCEPT ![i].pc = "failing", ![i].masters = NoData]
            /\ UNCHANGED kv
    /\ UNCHANGED <<clock, redis_up, _redis, masters_lock, origin, lookups, notCacheVars>>

ReleaseLock_AnyToken(i) ==
    /\ refresh[i].pc \in {"written", "failing"}
    /\ refresh' = [refresh EXCEPT ![i].pc = IF refresh[i].pc = "written" THEN "done" ELSE "failed"]
    /\ masters_lock' = IF redis_up THEN [masters_lock EXCEPT !.redis = NoLock] ELSE masters_lock
    /\ UNCHANGED <<clock, redis_up, _redis, kv, origin, lookups, notCacheVars>>

\* finally: await _release_lock(r, lock_key, token): the key is deleted only
\* when it still holds the task's token; an error is swallowed
ReleaseLock(i) ==
    /\ refresh[i].pc \in {"written", "failing"}
    /\ refresh' = [refresh EXCEPT ![i].pc = IF refresh[i].pc = "written" THEN "done" ELSE "failed"]
    /\ masters_lock' =
          IF redis_up /\ masters_lock.redis.token = i /\ ~RedisLockFree
          THEN [masters_lock EXCEPT !.redis = NoLock]
          ELSE masters_lock
    /\ UNCHANGED <<clock, redis_up, _redis, kv, origin, lookups, notCacheVars>>

\* an origin call in flight began at most TIMEOUT_SECONDS ago
InFlight ==
    {lookups[j].began : j \in {k \in Lookups : lookups[k].pc = "fetching"}}
        \cup {refresh[i].began : i \in {k \in Lookups : refresh[k].pc = "fetching"}}

\* time passes, while a call or a task has yet to run
TimePasses(d) ==
    /\ clock + d <= Epoch + 60 * MaxMinutes
    /\ \E k \in Lookups :
          \/ lookups[k].pc \notin {"done", "raised"}
          \/ refresh[k].pc \notin {"none", "done", "failed", "skipped"}
    /\ \A began \in InFlight : clock + d - began <= TIMEOUT_SECONDS
    /\ clock' = clock + d
    /\ UNCHANGED <<redis_up, _redis, kv, masters_lock, origin, lookups, refresh, notCacheVars>>

\* the cache service stops answering, for the rest of the run
RedisFails ==
    /\ redis_up
    /\ redis_up' = FALSE
    /\ UNCHANGED <<clock, _redis, kv, masters_lock, origin, lookups, refresh, notCacheVars>>

\* the entries a process finds: none, one written an hour ago, one written
\* a minute less than an hour ago
MastersInit ==
    /\ clock = Epoch
    /\ redis_up \in BOOLEAN
    /\ _redis = FALSE
    /\ kv \in [ redis : {NoEntry, Entry(1, Epoch - REFRESH_INTERVAL_SECONDS),
                         Entry(1, Epoch - REFRESH_INTERVAL_SECONDS + 60)},
                mem : {NoEntry, Entry(1, Epoch - REFRESH_INTERVAL_SECONDS)} ]
    /\ masters_lock = [redis |-> NoLock, mem |-> 0]
    /\ origin = [roster |-> 2]
    /\ lookups = [j \in Lookups |-> NoLookup]
    /\ refresh = [i \in Lookups |-> NoRefresh]

MastersNext ==
    \/ \E j \in Lookups : FetchMastersInfo(j)
    \/ \E j \in Lookups : GetData(j)
    \/ \E j \in Lookups : GetMeta(j)
    \/ \E j \in Lookups, ok \in BOOLEAN : OriginAnswers(j, ok)
    \/ \E j \in Lookups : WriteCache(j)
    \/ \E i \in Lookups : TryAcquireLock(i)
    \/ \E i \in Lookups, ok \in BOOLEAN : RefreshAnswers(i, ok)
    \/ \E i \in Lookups : WriteRefreshed(i)
    \/ \E i \in Lookups : ReleaseLock(i)
    \/ \E d \in Leaps : TimePasses(d)
    \/ RedisFails

\* the call j has returned
LookupDone(j) == lookups[j].pc = "done"
\* the call j returned what was cached before any refresh: not the roster
\* the origin serves
ReturnedCached(j) == lookups[j].returned /= NoData /\ lookups[j].returned /= origin.roster
\* the refreshes that had completed when the call j began
RefreshedBefore(j) == lookups[j].refreshed

\* C19 as stated: a lookup that reads a stale entry returns the cached value
\* and has waited for no origin call; a lookup begun after a background
\* refresh completed returns the refreshed roster and has waited for no
\* origin call.
C19_AsClaimed ==
    \A j \in Lookups :
        LookupDone(j) =>
            /\ lookups[j].found = "stale" => (ReturnedCached(j) /\ ~lookups[j].waited)
            /\ RefreshedBefore(j) /= {} =>
                  /\ lookups[j].returned \in {refresh[i].masters : i \in RefreshedBefore(j)}
                  /\ ~lookups[j].waited

\* C19: a lookup that reads a stale entry returns the cached value; a lookup
\* begun after a background refresh wrote the entry, and reading the store
\* that refresh wrote, returns the refreshed roster; either lookup has
\* waited for an origin call only when it came to the in-process map after
\* its own origin fetch on the cache-service path (a miss there) failed or
\* could not be stored.
C19_StaleWhileRevalidate ==
    \A j \in Lookups :
        LookupDone(j) =>
            /\ lookups[j].found = "stale" =>
                  /\ ReturnedCached(j)
                  /\ lookups[j].waited => lookups[j].via = "mem"
            /\ \A i \in RefreshedBefore(j) :
                  refresh[i].via = lookups[j].via =>
                      /\ lookups[j].returned = refresh[i].masters
                      /\ lookups[j].waited => lookups[j].via = "mem"

\* the first call read the stale entry in the cache service and returned it
\* at once; its refresh wrote the origin's roster; the second call, begun
\* after that, returned the refreshed roster at once
C19_Witness ==
    /\ LookupDone(1) /\ lookups[1].found = "stale" /\ lookups[1].via = "redis"
    /\ ReturnedCached(1) /\ ~lookups[1].waited
    /\ refresh[1].pc = "done" /\ refresh[1].masters = origin.roster
    /\ LookupDone(2) /\ 1 \in lookups[2].refreshed /\ lookups[2].via = "redis"
    /\ lookups[2].returned = origin.roster /\ ~lookups[2].waited

\* two calls that ran at the same time and both read the stale entry of
\* one store
ConcurrentStale(i, j) ==
    /\ i < j
    /\ i \in lookups[j].during
    /\ lookups[i].pc = "done" /\ lookups[i].found = "stale"
    /\ lookups[j].pc = "done" /\ lookups[j].found = "stale"
    /\ lookups[i].via = lookups[j].via

\* C20: two concurrent lookups that read the same stale entry lead to at most
\* one origin call by their background refreshes, whatever the interleaving
\* of the lookups and of the refresh tasks.
C20_AsClaimed ==
    \A i, j \in Lookups :
        ConcurrentStale(i, j) => ~(refresh[i].called /\ refresh[j].called)

\* the task i leaves its finally clause: _release_lock has run
Releases(i) ==
    /\ refresh[i].pc \in {"written", "failing"}
    /\ refresh'[i].pc \in {"done", "failed"}
\* the lock key holds the token of the task i and has not expired
HoldsLock(i) == masters_lock.redis.token = i /\ ~RedisLockFree

\* C33: a refresher never releases a lock it does not own: its release
\* removes the lock key only while the key still holds its own token; a
\* key that holds another refresher's token, taken after the lock of the
\* first expired during a slow origin call, is left as it is; and no other
\* step removes a lock that is held.
C33_ReleaseOwnLockOnly ==
    [][ /\ \A i \in Lookups :
              Releases(i) =>
                  /\ ~HoldsLock(i) => masters_lock' = masters_lock
                  /\ masters_lock' /= masters_lock =>
                        (HoldsLock(i) /\ masters_lock'.redis = NoLock)
        /\ (~RedisLockFree /\ masters_lock'.redis /= masters_lock.redis) =>
              Releases(masters_lock.redis.token) ]_vars

\* the lock of the first refresher expired while it awaited the origin, the
\* second refresher took the lock, and the first has released since: the
\* key still holds the second's token
C33_Witness ==
    /\ refresh[1].called /\ refresh[1].via = "redis" /\ refresh[1].pc \in {"done", "failed"}
    /\ refresh[2].pc \in {"fetching", "fetched", "written", "failing"}
    /\ masters_lock.redis.token = 2
    /\ ~RedisLockFree

(***************************************************************************)
(* The in-process fallback with several channels                           *)
(* (_fetch_masters_memory_fallback, _refresh_in_background_mem)            *)
(***************************************************************************)
Channels == {1, 2}

\* a call of fetch_masters_info(channel_id) that finds no cache service
MemLookup(channel_id) ==
    [channel_id |-> channel_id, pc |-> "idle", found |-> "none", returned |-> NoData]
\* the task a stale hit creates; holder is the channel of the refresh that
\* held _mem_lock when the task read _mem_lock.locked()
MemRefresh(channel_id) ==
    [channel_id |-> channel_id, pc |-> "created", holder |-> 0, masters |-> NoData]
\* the roster the origin serves for a channel
RosterOf(channel_id) == 10 * channel_id + origin.roster

\* _fetch_masters_memory_fallback up to its return or its await of the origin
FetchMastersMemoryFallback(j) ==
    /\ lookups[j].pc = "idle"
    /\ LET channel_id == lookups[j].channel_id
           cached == kv[channel_id]
       IN
       IF cached.data /= NoData
       THEN /\ lookups' = [lookups EXCEPT ![j].pc = "done", ![j].returned = cached.data,
                                        ![j].found = IF IsFreshEntry(cached.updated_at, clock)
                                                     THEN "fresh" ELSE "stale"]
            /\ refresh' = IF IsFreshEntry(cached.updated_at, clock) THEN refresh
                          ELSE [refresh EXCEPT ![j] = MemRefresh(channel_id)]
       ELSE /\ lookups' = [lookups EXCEPT ![j].pc = "fetching", ![j].found = "miss"]
            /\ UNCHANGED refresh
    /\ UNCHANGED <<clock, redis_up, _redis, kv, masters_lock, origin, notCacheVars>>

\* masters = await _fetch_origin(channel_id) of a miss; _write_cache_mem
MemOriginAnswers(j, ok) ==
    /\ lookups[j].pc = "fetching"
    /\ LET channel_id == lookups[j].channel_id IN
       IF ok
       THEN /\ kv' = [kv EXCEPT ![channel_id] = Entry(RosterOf(channel_id), clock)]
            /\ lookups' = [lookups EXCEPT ![j].pc = "done", ![j].returned = RosterOf(channel_id)]
       ELSE /\ lookups' = [lookups EXCEPT ![j].pc = "raised"]
            /\ UNCHANGED kv
    /\ UNCHANGED <<clock, redis_up, _redis, masters_lock, origin, refresh, notCacheVars>>

\* _refresh_in_background_mem starts: if _mem_lock.locked(): return;
\* otherwise the lock is taken and the origin is called
RefreshInBackgroundMem(i) ==
    /\ refresh[i].pc = "created"
    /\ IF masters_lock.mem /= 0
       THEN /\ refresh' = [refresh EXCEPT ![i].pc = "skipped",
                                          ![i].holder = refresh[masters_lock.mem].channel_id]
            /\ UNCHANGED masters_lock
       ELSE /\ refresh' = [refresh EXCEPT ![i].pc = "fetching"]
            /\ masters_lock' = [masters_lock EXCEPT !.mem = i]
    /\ UNCHANGED <<clock, redis_up, _redis, kv, origin, lookups, notCacheVars>>

\* the origin answers the task: _write_cache_mem, and the lock is released
\* on the way out of async with
MemRefreshAnswers(i, ok) ==
    /\ refresh[i].pc = "fetching"
    /\ LET channel_id == refresh[i].channel_id IN
       /\ refresh' = [refresh EXCEPT ![i].pc = IF ok THEN "done" ELSE "failed",
                                     ![i].masters = IF ok THEN RosterOf(channel_id) ELSE NoData]
       /\ kv' = IF ok THEN [kv EXCEPT ![channel_id] = Entry(RosterOf(channel_id), clock)] ELSE kv
    /\ masters_lock' = [masters_lock EXCEPT !.mem = 0]
    /\ UNCHANGED <<clock, redis_up, _redis, origin, lookups, notCacheVars>>

MemTimePasses(d) ==
    /\ clock + d <= Epoch + 60 * MaxMinutes
    /\ clock' = clock + d
    /\ UNCHANGED <<redis_up, _redis, kv, masters_lock, origin, lookups, refresh, notCacheVars>>

\* a process without the cache service; each channel has no entry, an entry
\* written an hour ago, or one written a minute less than an hour ago
MemChannelsInit ==
    /\ clock = Epoch
    /\ redis_up = FALSE
    /\ _redis = FALSE
    /\ kv \in [Channels -> {NoEntry, Entry(1, Epoch - REFRESH_INTERVAL_SECONDS),
                            Entry(1, Epoch - REFRESH_INTERVAL_SECONDS + 60)}]
    /\ masters_lock = [redis |-> NoLock, mem |-> 0]
    /\ origin = [roster |-> 2]
    /\ \E of \in [Lookups -> Channels] : lookups = [j \in Lookups |-> MemLookup(of[j])]
    /\ refresh = [i \in Lookups |-> [MemRefresh(lookups[i].channel_id) EXCEPT !.pc = "none"]]

MemChannelsNext ==
    \/ \E j \in Lookups : FetchMastersMemoryFallback(j)
    \/ \E j \in Lookups, ok \in BOOLEAN : MemOriginAnswers(j, ok)
    \/ \E i \in Lookups : RefreshInBackgroundMem(i)
    \/ \E i \in Lookups, ok \in BOOLEAN : MemRefreshAnswers(i, ok)
    \/ \E d \in Leaps : MemTimePasses(d)

\* C35: in the in-process fallback a background refresh is skipped only
\* because a refresh of the same channel id is in flight: a refresh in
\* flight for one channel id does not suppress the refresh of a stale entry
\* of another channel id.
C35_AsClaimed ==
    \A i \in Lookups :
        refresh[i].pc = "skipped" => refresh[i].holder = refresh[i].channel_id

(***************************************************************************)
(* Part 8: the process-wide resources (src/src/zena_resources.py) and the  *)
(* model registry they bring up (src/src/zena_models.py)                   *)
(***************************************************************************)
\* the calls of init_resources the event loop runs
NumInits == 2
Inits == 1..NumInits
\* None of Python, for the singleton, a lock holder, the registry's fields
NoInstance == 0

BringUpSteps == {"models", "pg_pool", "http", "redis"}
\* the objects an attempt creates: the registry's http client, the pool, the
\* http client, the cache client; "none", "open", "closed", or "failed" when
\* its close raised
NoResources == [models_http |-> "none", pg_pool |-> "none", http |-> "none", redis |-> "none"]
\* path: how the call came to its result: "fast" (first check), "checked"
\* (second check, under the lock) or "built"
NoInit == [pc |-> "idle", returned |-> NoInstance, path |-> "none"]

SecondCheck_Skipped(instance) == FALSE
\* if _instance is not None: return _instance, under the lock
SecondCheck(instance) == instance /= NoInstance

\* the state an object is left in by its close
ClosedAs(state, raises) == IF state /= "open" THEN state ELSE IF raises THEN "failed" ELSE "closed"

\* init_resources begins: the fast path, or the wait for the lock
InitResources(j) ==
    /\ inits[j].pc = "idle"
    /\ inits' = [inits EXCEPT ![j] =
            IF _instance /= NoInstance
            THEN [pc |-> "done", returned |-> _instance, path |-> "fast"]
            ELSE [pc |-> "lock", returned |-> NoInstance, path |-> "none"]]
    /\ UNCHANGED <<_instance, res_lock, models_reg, resources, performed, notResVars>>

\* async with _lock: the lock is taken; the singleton is read again
AcquireLock(j) ==
    /\ inits[j].pc = "lock"
    /\ res_lock = NoInstance
    /\ IF SecondCheck(_instance)
       THEN /\ inits' = [inits EXCEPT ![j] =
                    [pc |-> "done", returned |-> _instance, path |-> "checked"]]
            /\ UNCHANGED res_lock
       ELSE /\ inits' = [inits EXCEPT ![j].pc = "models"]
            /\ res_lock' = j
    /\ UNCHANGED <<_instance, models_reg, resources, performed, notResVars>>

\* await init_models(): _ModelsRegistry.init returns the models it has, or
\* builds the http client and the models; a required variable may be missing
\* ("env"), or a model may fail to build after the client was made ("client")
InitModels(j, outcome) ==
    /\ inits[j].pc = "models"
    /\ IF models_reg._models /= NoInstance
       THEN /\ outcome = "ok"
            /\ inits' = [inits EXCEPT ![j].pc = "pg_pool"]
            /\ UNCHANGED <<models_reg, resources, performed>>
       ELSE /\ inits' = [inits EXCEPT ![j].pc = IF outcome = "ok" THEN "pg_pool" ELSE "rollback"]
            /\ models_reg' =
                  IF outcome = "env" THEN models_reg
                  ELSE [_models |-> IF outcome = "ok" THEN j ELSE NoInstance, _http |-> j]
            /\ resources' =
                  IF outcome = "env" THEN resources
                  ELSE [resources EXCEPT ![j].models_http = "open"]
            /\ performed' =
                  IF outcome = "ok" THEN [performed EXCEPT !.models = @ + 1] ELSE performed
    /\ UNCHANGED <<_instance, res_lock, notResVars>>

\* pg_pool = await asyncpg.create_pool(...)
CreatePool(j, ok) ==
    /\ inits[j].pc = "pg_pool"
    /\ inits' = [inits EXCEPT ![j].pc = IF ok THEN "clients" ELSE "rollback"]
    /\ resources' = IF ok THEN [resources EXCEPT ![j].pg_pool = "open"] ELSE resources
    /\ performed' = IF ok THEN [performed EXCEPT !.pg_pool = @ + 1] ELSE performed
    /\ UNCHANGED <<_instance, res_lock, models_reg, notResVars>>

\* http = httpx.AsyncClient(...); r = redis_async.from_url(...); _instance =
\* ZenaResources(...); return _instance: no await in between. The first
\* constructor may raise ("http"), or the second ("redis")
CreateClients(j, outcome) ==
    /\ inits[j].pc = "clients"
    /\ resources' = [resources EXCEPT
            ![j].http = IF outcome = "http" THEN "none" ELSE "open",
            ![j].redis = IF outcome = "ok" THEN "open" ELSE "none"]
    /\ performed' = [performed EXCEPT
            !.http = IF outcome = "http" THEN @ ELSE @ + 1,
            !.redis = IF outcome = "ok" THEN @ + 1 ELSE @]
    /\ IF outcome = "ok"
       THEN /\ _instance' = j
            /\ inits' = [inits EXCEPT ![j] = [pc |-> "done", returned |-> j, path |-> "built"]]
            /\ res_lock' = NoInstance
       ELSE /\ inits' = [inits EXCEPT ![j].pc = "rollback"]
            /\ UNCHANGED <<_instance, res_lock>>
    /\ UNCHANGED <<models_reg, notResVars>>

\* _ModelsRegistry.close: the client is closed and _http reset in a finally;
\* _models is reset after it, when the close did not raise
CloseModels(reg, raises) ==
    IF reg._http = NoInstance THEN [_models |-> NoInstance, _http |-> NoInstance]
    ELSE [_models |-> IF raises THEN reg._models ELSE NoInstance, _http |-> NoInstance]

\* except Exception: every object the attempt created is closed, each close
\* in a try of its own, then close_models(); raise. failing: the objects
\* whose close raises
Rollback(j, failing) ==
    /\ inits[j].pc = "rollback"
    /\ resources' = [k \in Inits |->
            IF k = j
            THEN [ http |-> ClosedAs(resources[j].http, "http" \in failing),
                   redis |-> ClosedAs(resources[j].redis, "redis" \in failing),
                   pg_pool |-> ClosedAs(resources[j].pg_pool, "pg_pool" \in failing),
                   models_http |-> IF models_reg._http = j
                                   THEN ClosedAs(resources[j].models_http, "models" \in failing)
                                   ELSE resources[j].models_http ]
            ELSE IF k = models_reg._http
            THEN [resources[k] EXCEPT
                    !.models_http = ClosedAs(resources[k].models_http, "models" \in failing)]
            ELSE resources[k]]
    /\ models_reg' = CloseModels(models_reg, "models" \in failing)
    /\ inits' = [inits EXCEPT ![j].pc = "raised"]
    /\ res_lock' = NoInstance
    /\ UNCHANGED <<_instance, performed, notResVars>>

ResInit ==
    /\ _instance = NoInstance
    /\ res_lock = NoInstance
    /\ models_reg = [_models |-> NoInstance, _http |-> NoInstance]
    /\ resources = [j \in Inits |-> NoResources]
    /\ performed = [s \in BringUpSteps |-> 0]
    /\ inits = [j \in Inits |-> NoInit]

ResNext ==
    \/ \E j \in Inits : InitResources(j)
    \/ \E j \in Inits : AcquireLock(j)
    \/ \E j \in Inits, outcome \in {"ok", "env", "client"} : InitModels(j, outcome)
    \/ \E j \in Inits, ok \in BOOLEAN : CreatePool(j, ok)
    \/ \E j \in Inits, outcome \in {"ok", "http", "redis"} : CreateClients(j, outcome)
    \/ \E j \in Inits, failing \in SUBSET BringUpSteps : Rollback(j, failing)

\* no attempt has been rolled back: nothing that was brought up has been
\* closed
NoClose == \A j \in Inits : inits[j].pc /= "raised"
InitDone(j) == inits[j].pc = "done"

\* C21: as long as nothing has been closed, each bring-up step (models, pool,
\* http client, cache client) has built its object at most once, and exactly
\* once when a call has returned; every call that has returned has returned
\* the one singleton.
C21_SingleBringUp ==
    NoClose =>
        /\ \A s \in BringUpSteps : performed[s] <= 1
        /\ \A j \in Inits :
              InitDone(j) =>
                  /\ inits[j].returned = _instance /\ _instance /= NoInstance
                  /\ \A s \in BringUpSteps : performed[s] = 1

\* two calls ran at the same time: the first built the singleton, the second
\* waited for the lock and got the singleton at the check under the lock
C21_Witness ==
    /\ NoClose
    /\ inits[1].pc = "done" /\ inits[1].path = "built"
    /\ inits[2].pc = "done" /\ inits[2].path = "checked"
    /\ inits[2].returned = inits[1].returned

\* the objects of the attempt of call j are closed, or their close was tried
Unwound(j) ==
    \A name \in DOMAIN NoResources : resources[j][name] \in {"none", "closed", "failed"}

\* C22: when a call of init_resources raises, the objects its attempt created
\* have been closed, the model registry is empty again and the singleton is
\* unset; a later attempt that passes the models step has built the models
\* itself.
C22_AsClaimed ==
    [][ \A j \in Inits :
          /\ (inits[j].pc /= "raised" /\ inits'[j].pc = "raised") =>
                /\ Unwound(j)'
                /\ models_reg' = [_models |-> NoInstance, _http |-> NoInstance]
                /\ _instance' = NoInstance
          /\ (inits[j].pc = "models" /\ inits'[j].pc = "pg_pool") =>
                models_reg'._models = j ]_vars

(***************************************************************************)
(* close_resources (src/src/zena_resources.py) next to init_resources      *)
(***************************************************************************)
\* the calls of close_resources the event loop runs
MaxCloses == 1
NoClosing == [pc |-> "idle", res |-> NoInstance, began |-> 0]

\* close_resources begins. With no singleton it goes to close_models();
\* otherwise it takes the singleton, resets _instance at once and awaits
\* the close of the http client. It does not take _lock.
CloseResources ==
    /\ closing.pc = "idle"
    /\ closing.began < MaxCloses
    /\ IF _instance = NoInstance
       THEN /\ closing' = [closing EXCEPT !.pc = "models", !.began = @ + 1]
            /\ UNCHANGED _instance
       ELSE /\ closing' = [pc |-> "handles", res |-> _instance, began |-> closing.began + 1]
            /\ _instance' = NoInstance
    /\ UNCHANGED <<res_lock, models_reg, resources, performed, inits, notCloseVars>>

\* the http client, the cache client and the pool of the singleton are
\* closed, each in a try of its own; failing: the closes that raise
CloseHandles(failing) ==
    /\ closing.pc = "handles"
    /\ resources' = [resources EXCEPT ![closing.res] =
            [ @ EXCEPT !.http = ClosedAs(@, "http" \in failing),
                       !.redis = ClosedAs(@, "redis" \in failing),
                       !.pg_pool = ClosedAs(@, "pg_pool" \in failing) ]]
    /\ closing' = [closing EXCEPT !.pc = "models"]
    /\ UNCHANGED <<_instance, res_lock, models_reg, performed, inits, notCloseVars>>

\* await close_models(), in the finally or on the branch without a
\* singleton; an error is logged
CloseRegistry(raises) ==
    /\ closing.pc = "models"
    /\ models_reg' = CloseModels(models_reg, raises)
    /\ resources' = IF models_reg._http = NoInstance THEN resources
                    ELSE [resources EXCEPT ![models_reg._http].models_http = ClosedAs(@, raises)]
    /\ closing' = [closing EXCEPT !.pc = "idle", !.res = NoInstance]
    /\ UNCHANGED <<_instance, res_lock, performed, inits, notCloseVars>>

ResCloseInit == ResInit /\ closing = NoClosing

ResCloseNext ==
    \/ \E j \in Inits : InitResources(j)
    \/ \E j \in Inits : AcquireLock(j)
    \/ \E j \in Inits, outcome \in {"ok", "env", "client"} : InitModels(j, outcome)
    \/ \E j \in Inits, ok \in BOOLEAN : CreatePool(j, ok)
    \/ \E j \in Inits, outcome \in {"ok", "http", "redis"} : CreateClients(j, outcome)
    \/ \E j \in Inits, failing \in SUBSET BringUpSteps : Rollback(j, failing)
    \/ CloseResources
    \/ \E failing \in SUBSET {"http", "redis", "pg_pool"} : CloseHandles(failing)
    \/ \E raises \in BOOLEAN : CloseRegistry(raises)

\* the registry holds its models and their http client is open
ModelsLive ==
    /\ models_reg._models /= NoInstance
    /\ models_reg._http /= NoInstance
    /\ resources[models_reg._http].models_http = "open"

\* C38: under any interleaving of init_resources and close_resources,
\* whenever the singleton is set the model registry is initialized: no
\* published singleton has its models closed.
C38_AsClaimed ==
    _instance /= NoInstance => ModelsLive

(***************************************************************************)
(* Part 9: the retried calls: retry_async (src/src/zena_common.py) and the *)
(* tool-catalog fetch _get_tools_safe (src/src/zena_create_agent.py)       *)
(***************************************************************************)
\* retries: int = 3, the value every decorated function is given
RETRIES_DEFAULT == 3
\* what the wrapped function may raise: subclasses of Exception, and the
\* cancellation, which is a BaseException only
Failures == {"TimeoutError", "ConnectionError"}
Cancellation == "CancelledError"
Values == {"row", "none"}

Retried_EveryBaseException(error) == TRUE
\* except exceptions, with exceptions = (Exception,)
Retried(error) == error \in Failures

NewRetry ==
    [ pc |-> "func", attempt |-> 1, invocations |-> 1, sleeps |-> 0,
      errors |-> <<>>, value |-> "", raised |-> "" ]

\* what the except clause of the wrapper does with an error raised at an
\* await of attempt n: an error it does not catch leaves the wrapper; the
\* last attempt re-raises; otherwise the wrapper sleeps
OnError(r, error) ==
    IF ~Retried(error) THEN [r EXCEPT !.pc = "left", !.raised = error]
    ELSE IF r.attempt = RETRIES_DEFAULT
    THEN [r EXCEPT !.pc = "raised", !.raised = error, !.errors = Append(@, error)]
    ELSE [r EXCEPT !.pc = "sleep", !.errors = Append(@, error)]

\* return await func(*args, **kwargs): the function returns
FuncReturns(v) ==
    /\ retry.pc = "func"
    /\ retry' = [retry EXCEPT !.pc = "returned", !.value = v]
    /\ UNCHANGED <<mcp, notLoopVars>>

\* the function raises
FuncRaises(error) ==
    /\ retry.pc = "func"
    /\ retry' = OnError(retry, error)
    /\ UNCHANGED <<mcp, notLoopVars>>

\* the task is cancelled while it awaits the function
CancelledInFunc ==
    /\ retry.pc = "func"
    /\ retry' = OnError(retry, Cancellation)
    /\ UNCHANGED <<mcp, notLoopVars>>

\* await asyncio.sleep(wait) ends: the next attempt calls the function
SleepEnds ==
    /\ retry.pc = "sleep"
    /\ retry' = [retry EXCEPT !.pc = "func", !.attempt = @ + 1, !.invocations = @ + 1,
                              !.sleeps = @ + 1]
    /\ UNCHANGED <<mcp, notLoopVars>>

\* the task is cancelled during the backoff sleep: the sleep is outside the
\* try of that attempt, the error leaves the wrapper
CancelledAsleep ==
    /\ retry.pc = "sleep"
    /\ retry' = [retry EXCEPT !.pc = "left", !.raised = Cancellation]
    /\ UNCHANGED <<mcp, notLoopVars>>

\* the values of MCP_RETRIES explored
MaxMcpRetries == 2
McpRetries == -1..MaxMcpRetries
ToolLists == {<<>>, <<"zena_faq">>}

NewFetch(retries, fail_hard) ==
    [ MCP_RETRIES |-> retries, MCP_FAIL_HARD |-> fail_hard,
      pc |-> IF retries + 1 > 0 THEN "attempt" ELSE "returned",
      i |-> 0, attempts |-> IF retries + 1 > 0 THEN 1 ELSE 0, sleeps |-> 0,
      errors |-> <<>>, tools |-> <<>>, fallback |-> ~(retries + 1 > 0), raised |-> "" ]

LastAttempt_OneMore(i, retries) == i > retries
\* if i >= MCP_RETRIES: break
LastAttempt(i, retries) == i >= retries

\* tools = await attempt(): the catalog answers within the timeout; the
\* close of the client in the finally is best-effort
AttemptReturns(tools) ==
    /\ mcp.pc = "attempt"
    /\ mcp' = [mcp EXCEPT !.pc = "returned", !.tools = tools]
    /\ UNCHANGED <<retry, notLoopVars>>

\* attempt() raises: the catalog is down, or wait_for timed out. Fail-hard
\* re-raises; the last attempt breaks to the fallback; otherwise sleep
AttemptRaises(error) ==
    /\ mcp.pc = "attempt"
    /\ mcp' =
          IF mcp.MCP_FAIL_HARD
          THEN [mcp EXCEPT !.pc = "raised", !.raised = error, !.errors = Append(@, error)]
          ELSE IF LastAttempt(mcp.i, mcp.MCP_RETRIES)
          THEN [mcp EXCEPT !.pc = "returned", !.tools = <<>>, !.fallback = TRUE,
                           !.errors = Append(@, error)]
          ELSE [mcp EXCEPT !.pc = "sleep", !.errors = Append(@, error)]
    /\ UNCHANGED <<retry, notLoopVars>>

\* await asyncio.sleep(sleep_s) ends: the loop makes its next attempt
BackoffEnds ==
    /\ mcp.pc = "sleep"
    /\ mcp' = [mcp EXCEPT !.pc = "attempt", !.i = @ + 1, !.attempts = @ + 1, !.sleeps = @ + 1]
    /\ UNCHANGED <<retry, notLoopVars>>

LoopInit ==
    /\ retry = NewRetry
    /\ mcp \in {NewFetch(retries, fail_hard) : retries \in McpRetries, fail_hard \in BOOLEAN}

LoopNext ==
    \/ \E v \in Values : FuncReturns(v)
    \/ \E error \in Failures : FuncRaises(error)
    \/ CancelledInFunc
    \/ SleepEnds
    \/ CancelledAsleep
    \/ \E tools \in ToolLists : AttemptReturns(tools)
    \/ \E error \in Failures : AttemptRaises(error)
    \/ BackoffEnds

\* C23: a wrapped function is invoked at most three times; a success is
\* returned at once, every invocation before it having failed; when the last
\* attempt fails the error raised is that attempt's; a cancellation is never
\* treated as a failed attempt: it leaves the wrapper with no further
\* invocation and no further sleep
C23_RetryPolicy ==
    /\ retry.invocations <= RETRIES_DEFAULT
    /\ retry.sleeps = retry.invocations - 1
    /\ retry.pc = "returned" =>
          /\ retry.invocations = Len(retry.errors) + 1
          /\ retry.value \in Values
    /\ retry.pc = "raised" =>
          /\ retry.invocations = RETRIES_DEFAULT
          /\ Len(retry.errors) = RETRIES_DEFAULT
          /\ retry.raised = retry.errors[RETRIES_DEFAULT]
    /\ \A k \in 1..Len(retry.errors) : retry.errors[k] /= Cancellation
    /\ retry.pc = "left" =>
          /\ retry.raised = Cancellation
          /\ Len(retry.errors) \in {retry.invocations - 1, retry.invocations}

\* the third attempt failed with another error than the first
C23_Witness ==
    /\ retry.pc = "raised"
    /\ retry.invocations = RETRIES_DEFAULT
    /\ retry.errors[1] /= retry.errors[RETRIES_DEFAULT]

\* C25: the tool-catalog fetch makes at most MCP_RETRIES + 1 attempts; with
\* fail-hard unset it never raises and returns the empty list once every
\* attempt has failed; with fail-hard set the first failure is raised
C25_FetchPolicy ==
    /\ mcp.attempts <= (IF mcp.MCP_RETRIES + 1 > 0 THEN mcp.MCP_RETRIES + 1 ELSE 0)
    /\ ~mcp.MCP_FAIL_HARD =>
          /\ mcp.pc /= "raised"
          /\ Len(mcp.errors) >= mcp.MCP_RETRIES + 1 =>
                mcp.pc = "returned" /\ mcp.tools = <<>> /\ mcp.fallback
    /\ mcp.MCP_FAIL_HARD /\ mcp.errors /= <<>> =>
          /\ mcp.pc = "raised"
          /\ mcp.attempts = 1
          /\ mcp.raised = mcp.errors[1]
    /\ mcp.pc = "returned" /\ ~mcp.fallback => mcp.attempts = Len(mcp.errors) + 1

\* three attempts failed and the fetch returned the empty list
C25_Witness ==
    /\ ~mcp.MCP_FAIL_HARD
    /\ mcp.MCP_RETRIES = 2
    /\ mcp.pc = "returned"
    /\ mcp.fallback
    /\ Len(mcp.errors) = 3

(***************************************************************************)
(* The persistence of the final answer: SaveResponceAgent                  *)
(* (src/src/zena_middleware_after_agent.py) and sent_message_to_history    *)
(* with the retry_async of src/src/zena_httpservice.py                     *)
(***************************************************************************)
\* retries: int = 1, "the total number of attempts"; sent_message_to_history
\* passes no retries
HISTORY_RETRIES == 1
\* the runs whose answer is saved
MaxSaves == 3
\* what _sent_message_to_history re-raises: an HTTP status, a timeout, any
\* other aiohttp.ClientError
PostErrors == {"ClientResponseError", "ServerTimeoutError", "ClientConnectionError"}
\* responce.get('status', 'not')
PostStatuses == {"ok", "not"}

\* posts: the outcomes of the POSTs of the save in progress; log: the saves
\* that have ended, each with its POSTs and what the hook logged
NewSaves == [pc |-> "idle", attempt |-> 0, posts |-> <<>>, log |-> <<>>]
Saved(posts, logged) == [posts |-> posts, logged |-> logged]

\* SaveResponceAgent.aafter_agent: the payload is built and
\* sent_message_to_history awaits retry_async(_sent_message_to_history, ...)
SaveResponceAgent ==
    /\ retry.pc = "idle"
    /\ Len(retry.log) < MaxSaves
    /\ retry' = [retry EXCEPT !.pc = "post", !.attempt = 1, !.posts = <<>>]
    /\ UNCHANGED <<mcp, notLoopVars>>

\* the POST answers 2xx with a JSON body; the hook logs by its status
PostReturns(status) ==
    /\ retry.pc = "post"
    /\ LET posts == Append(retry.posts, "ok") IN
       retry' = [retry EXCEPT !.pc = "idle", !.posts = <<>>,
                     !.log = Append(@, Saved(posts, IF status = "ok" THEN "saved"
                                                    ELSE "not saved"))]
    /\ UNCHANGED <<mcp, notLoopVars>>

\* the POST raises: on the last attempt retry_async logs and re-raises, and
\* the except Exception of the hook logs the error and returns None;
\* before the last attempt retry_async would sleep and call again, which
\* with retries = 1 never happens
PostRaises(error) ==
    /\ retry.pc = "post"
    /\ LET posts == Append(retry.posts, error) IN
       retry' = IF retry.attempt = HISTORY_RETRIES
                THEN [retry EXCEPT !.pc = "idle", !.posts = <<>>,
                          !.log = Append(@, Saved(posts, "given up"))]
                ELSE [retry EXCEPT !.pc = "post", !.attempt = @ + 1, !.posts = posts]
    /\ UNCHANGED <<mcp, notLoopVars>>

SavesInit == retry = NewSaves /\ mcp = <<>>

SavesNext ==
    \/ SaveResponceAgent
    \/ \E status \in PostStatuses : PostReturns(status)
    \/ \E error \in PostErrors : PostRaises(error)

\* C34: when the hook posts the turn to the history endpoint, a transient
\* network failure of the first POST is followed by at least one further
\* POST before the failure is given up and logged.
C34_AsClaimed ==
    \A k \in DOMAIN retry.log :
        (retry.log[k].posts[1] \in PostErrors /\ retry.log[k].logged = "given up") =>
            Len(retry.log[k].posts) >= 2

(***************************************************************************)
(* Part 10: a run of the agent with its per-run accumulators               *)
(* (src/src/zena_state.py, zena_middleware_after_model.py,                 *)
(* zena_middleware_after_agent.py)                                         *)
(***************************************************************************)
\* the tool calls explored in one run (ToolCallLimitMiddleware allows 10)
MaxRunCalls == 2
RunTools == {"zena_remember_office", "zena_faq"}
\* the arguments the model gives a tool; the session id is the graph's
RunArgs ==
    { PDict(<<>>),
      PDict(<<[k |-> "session_id", x |-> PStr("u1")], [k |-> "office_id", x |-> PStr("1")]>>) }
\* usage_metadata of the model's message, None when the message has none
NoUsage == [input_tokens |-> -1, output_tokens |-> -1, total_tokens |-> -1]
Usages ==
    { NoUsage,
      [input_tokens |-> 2, output_tokens |-> 1, total_tokens |-> 3],
      [input_tokens |-> 1, output_tokens |-> 1, total_tokens |-> 0] }

\* the model answers: a final text, or a call of a tool the request offers.
\* On these ports GetCRMGOOnboardStage, the first after-model hook, returns
\* the bag as it is.
ModelReplies ==
    /\ step = "model"
    /\ \E reply \in {AIMessage(<<"o", "k">>)}
                        \cup {AIToolCall(tool_name) : tool_name \in request.tools \cap RunTools} :
          /\ ToolCallsOf(reply) /= <<>> => Len(tools_result) < MaxRunCalls
          /\ messages' = Append(messages, reply)
    /\ step' = "GetToolArgs"
    /\ UNCHANGED <<regVars, toolVars, context, user_companychat, deps, selVars, onbVars, trimVars,
                   notAgentVars>>

\* {k: v for k, v in tool["args"].items() if k != "session_id"}
WithoutSessionId(args) == PDict(SelectSeq(args.v, LAMBDA e : e.k /= "session_id"))

\* GetToolArgs.aafter_model
GetToolArgs(args) ==
    /\ step = "GetToolArgs"
    /\ LET tool_calls == ToolCallsOf(messages[Len(messages)]) IN
       tools_args' =
          IF tool_calls = <<>> THEN tools_args
          ELSE add_tools_or_reset(tools_args,
                   ListUpdate([i \in 1..Len(tool_calls) |-> WithoutSessionId(args)]))
    /\ step' = "GetCountToken"
    /\ UNCHANGED <<regVars, toolVars, messages, context, user_companychat, deps, selVars, onbVars,
                   trimVars, cacheVars, resVars, loopVars, docVars, closeVars, tools_name, tokens>>

\* GetCountToken.aafter_model with _calculate_tokens_update and
\* _get_current_tokens, then the edge to the tools or to the after-agent hooks
GetCountToken(usage) ==
    /\ step = "GetCountToken"
    /\ tokens' =
          IF usage = NoUsage THEN tokens
          ELSE LET inp == usage.input_tokens
                   out == usage.output_tokens
                   tot == IF usage.total_tokens /= 0 THEN usage.total_tokens ELSE inp + out
               IN  TokensOf(tokens.input_tokens + inp, tokens.output_tokens + out,
                            tokens.total_tokens + tot)
    /\ step' = IF ToolCallsOf(messages[Len(messages)]) /= <<>> THEN "tools" ELSE "end"
    /\ UNCHANGED <<regVars, toolVars, messages, context, user_companychat, deps, selVars, onbVars,
                   trimVars, cacheVars, resVars, loopVars, docVars, closeVars, tools_args, tools_name>>

\* --- the runs explored ---
RunHandled ==
    { ToolMessage(StrContent(JsonText(Ok(Remembered)))),
      ToolMessage(ListContent(<<[kind |-> "dict", key |-> "text", text |-> JsonText(Err)]>>)) }
RunBags ==
    { Bag(5002), Bag(5007) }

RunInit ==
    /\ data \in RunBags
    /\ tools_result = <<>>
    /\ lastCall = NoCall
    /\ messages = <<>>
    /\ context = [studio |-> FALSE, user_companychat |-> "u1"]
    /\ user_companychat = "u1"
    /\ step = "agent"
    /\ deps = <<>>
    /\ request = NoRequest
    \* the first run of a thread, or a run after the reset of an earlier one
    /\ \/ tools_args = Unset /\ tools_name = Unset /\ tokens = NoTokens
       \/ tools_args = ListOf(<<>>) /\ tools_name = ListOf(<<>>) /\ tokens = TokensOf(0, 0, 0)

RunNext ==
    \/ AwrapModelCall
    \/ ModelReplies
    \/ \E args \in RunArgs : GetToolArgs(args)
    \/ \E usage \in Usages : GetCountToken(usage)
    \/ \E args \in RunArgs, handled \in RunHandled : ToolsNode(args, handled)
    \/ ResetData

\* s is the beginning of t
IsPrefix(s, t) == Len(s) <= Len(t) /\ SubSeq(t, 1, Len(s)) = s
ResetStep == step = "end" /\ step' = "done"

\* C26: the per-run reset leaves tools_args, tools_name and tools_result
\* empty and the token totals zero, whatever the run accumulated, and does
\* not change the bag; every other update of an accumulator appends to the
\* list it had: GetToolArgs adds one entry per tool call of the message.
C26_PerRunReset ==
    [][/\ ResetStep =>
             /\ tools_args' = ListOf(<<>>)
             /\ tools_name' = ListOf(<<>>)
             /\ tools_result' = <<>>
             /\ tokens' = TokensOf(0, 0, 0)
             /\ data' = data
       /\ ~ResetStep =>
             /\ IsPrefix(tools_args.v, tools_args'.v)
             /\ IsPrefix(tools_name.v, tools_name'.v)
             /\ IsPrefix(tools_result, tools_result')
       /\ step = "GetToolArgs" =>
             Len(tools_args'.v)
                = Len(tools_args.v) + Len(ToolCallsOf(messages[Len(messages)]))]_vars

\* the run called two tools, the bag took the office, and the reset has run
C26_Witness ==
    /\ step = "done"
    /\ Len(SelectSeq(messages, LAMBDA m : m.type = "tool")) = 2
    /\ Truthy(data.office_id)
    /\ tools_args = ListOf(<<>>)
    /\ tools_result = <<>>
    /\ tokens = TokensOf(0, 0, 0)

(***************************************************************************)
(* Part 11: the booking funnel: tool selection and the postprocessors      *)
(* together (src/src/zena_middleware_wrap_model.py,                        *)
(* src/src/zena_middleware_wrap_tool.py, src/src/runtime/settings.py)      *)
(***************************************************************************)
\* the default ports of the personas other than alena (get_settings)
FunnelPorts == {5002, 5005, 5006, 5007, 5021, 5024}
\* slot searches stored in the bag at most
MaxSlotSearches == 1

\* a client whose contact data and consent are on file, at stage new
FunnelBag(port) ==
    [Bag(port) EXCEPT !.consent = PBool(TRUE), !.phone = PStr("+7900"),
                      !.email = PStr("a@b.c"), !.first_name = PStr("Anna")]

\* the data of a successful payload of a tool
FunnelPayloads(tool_name) ==
    DataOf(tool_name)
        \cup (IF tool_name = "zena_record_time"
              THEN {PDict(<<[k |-> "record_id", x |-> PInt(7)]>>)} ELSE {})

\* the envelope of {"success": true, "data": x}
SuccessEnv(x) == NormalizeEnvelope(Parsed(ToolMessage(StrContent(JsonText(Ok(x))))))

\* the bag after a successful call of the tool: the postprocessor of the
\* port's registry, if the tool has one
AfterCall(d, tool_name, x, args) ==
    RunPostProcessor(RegistryGet(RegistryFor(d), tool_name), d, SuccessEnv(x), args).data

\* the tools the selection admits for the bag, of all the tools registered
Admitted(d) == AllTools \cap BuildAllowedTools(d.mcp_port, DialogState(d), d)

\* the bags one admissible successful tool call away
FunnelStep(d) ==
    UNION { { AfterCall(d, tool_name, x, args) :
                x \in FunnelPayloads(tool_name), args \in ArgsOf(tool_name) } :
            tool_name \in Admitted(d) }
Within(d) == Len(d.available_time.v) <= MaxSlotSearches

\* the bags reachable by admissible successful tool calls
RECURSIVE FunnelReach(_)
FunnelReach(bags) ==
    LET next == bags \cup {e \in UNION {FunnelStep(d) : d \in bags} : Within(e)} IN
    IF next = bags THEN bags ELSE FunnelReach(next)

\* a turn in which the model calls one tool of the request, successfully:
\* awrap_tool_call with the postprocessor; tools_result, which gets the
\* entry of the call, is emptied by ResetData at the end of the turn
FunnelTurn(tool_name, x, args) ==
    /\ step = "model"
    /\ tool_name \in request.tools
    /\ Within(AfterCall(data, tool_name, x, args))
    /\ data' = AfterCall(data, tool_name, x, args)
    /\ step' = "agent"
    /\ request' = NoRequest
    /\ UNCHANGED <<regVars, tools_result, lastCall, messages, context, user_companychat, deps,
                   onbVars, trimVars, notAgentVars>>

FunnelInit ==
    /\ data \in {FunnelBag(port) : port \in FunnelPorts}
    /\ tools_result = <<>>
    /\ lastCall = NoCall
    /\ messages = <<>>
    /\ context = [studio |-> FALSE, user_companychat |-> "u1"]
    /\ user_companychat = "u1"
    /\ step = "agent"
    /\ deps = <<>>
    /\ request = NoRequest

FunnelNext ==
    \/ AwrapModelCall
    \/ \E tool_name \in AllTools :
          \E x \in FunnelPayloads(tool_name), args \in ArgsOf(tool_name) :
             FunnelTurn(tool_name, x, args)

\* the stages the funnel has passed when the bag is e, starting from d: e is
\* at postrecord, and the recommendations tool, admitted there, gives new
Completes(d) ==
    \E e \in FunnelReach({d}) :
        /\ e.dialog_state = "postrecord"
        /\ "zena_recommendations" \in Admitted(e)
        /\ \E x \in FunnelPayloads("zena_recommendations") :
              AfterCall(e, "zena_recommendations", x, PDict(<<>>)).dialog_state = "new"
ThroughStages(d) ==
    \A st \in {"selecting", "remember", "available_time"} :
        \E e \in FunnelReach({d}) : e.dialog_state = st

\* C30 as stated: on each of the ports 5002, 5005, 5006, 5007, 5021 and 5024
\* the funnel can be completed: from the bag at stage new there is a sequence
\* of successful tool calls, each admitted by the selection when it is made,
\* that takes dialog_state through the stages to postrecord and, with the
\* recommendations tool, back to new.
C30_AsClaimed ==
    (step = "agent" /\ data = FunnelBag(data.mcp_port)) =>
        ThroughStages(data) /\ Completes(data)

(***************************************************************************)
(* Part 12: the survey of a new client on the alena backend                *)
(* (src/src/zena_middleware_wrap_model.py, zena_middleware_after_model.py, *)
(*  zena_middleware_before_agent.py, zena_middleware_wrap_tool.py)         *)
(***************************************************************************)
\* the messages of the client explored on one thread
MaxSurveyTurns == 6

\* a message of the client arrives and a run of the agent starts
SurveyArrives(content) ==
    /\ step \in {"done", "raised"}
    /\ turns < MaxSurveyTurns
    /\ turns' = turns + 1
    /\ messages' = Append(messages, HumanMessage(content))
    /\ step' = "VerifyInputMessage"
    /\ deps' = <<>>
    /\ request' = NoRequest
    /\ UNCHANGED <<regVars, toolVars, context, user_companychat, peak, answered, trimVars,
                   notAgentVars>>

SurveyPhone == PStr("+7900")
SurveyHandled ==
    { ToolMessage(StrContent(JsonText(Ok(PStr("saved"))))),
      ToolMessage(StrContent(JsonText(Err))) }

\* the thread of a client whose phone is known and who has not been looked
\* up in the CRM yet
SurveyInit ==
    /\ data = [Bag(5020) EXCEPT !.phone = SurveyPhone]
    /\ tools_result = <<>>
    /\ lastCall = NoCall
    /\ messages = <<>>
    /\ context = [studio |-> FALSE, user_companychat |-> "u1"]
    /\ user_companychat = "unset"
    /\ step = "done"
    /\ deps = <<>>
    /\ request = NoRequest
    /\ peak = 0
    /\ turns = 0
    /\ answered = 0

SurveyNext ==
    \/ \E text \in OnbTexts : SurveyArrives([kind |-> "str", text |-> text, parts |-> <<>>])
    \/ VerifyInputMessage("ok", "ok", "ok")
    \/ \E crm \in {"found", "not_found"} : GetDatabaseMiddleware("ok", SurveyPhone, crm)
    \/ GetKeyWordMiddleware("none")
    \/ AwrapModelCall
    \/ ModelResponds
    \/ AafterModel
    \/ \E handled \in SurveyHandled : ToolsNode(PDict(<<>>), handled)
    \/ ResetData

\* onboarding_status of the bag
StatusOf(d) == Get(OnboardingOf(d), "onboarding_status")
\* the survey is running: the CRM did not know the client
Incomplete(d) == d.mcp_port = 5020 /\ StatusOf(d) = PBool(FALSE)
\* the model call offers the tool that records the client's answers
Offered == step = "model" /\ "zena_update_client_info" \in request.tools
\* the tool node marks the survey complete
MarkedComplete ==
    /\ step = "tools"
    /\ Incomplete(data)
    /\ StatusOf(data') = PBool(TRUE)

\* C31: on the alena backend, while the survey is incomplete the
\* update-client-info tool is offered to the model only once the counter
\* has reached 5, and so the tool node marks the survey complete only after
\* the model has given at least five answers without tool calls.
C31_SurveyGate ==
    [][ /\ (Offered /\ Incomplete(data)) => StageOf(data) >= 5
        /\ MarkedComplete => (StageOf(data) >= 5 /\ answered >= 5) ]_vars

C31_Witness ==
    /\ step = "agent"
    /\ data.mcp_port = 5020
    /\ StatusOf(data) = PBool(TRUE)
    /\ HasStage(data)
    /\ answered >= 5
    /\ tools_result /= <<>>
    /\ tools_result[Len(tools_result)].name = "zena_update_client_info"

(***************************************************************************)
(* Part 13: the template reader GoogleDocTemplateReader                    *)
(* (src/src/zena_google_doc.py)                                            *)
(***************************************************************************)
MaxDocTime == 3
MaxVersions == 2
NumReads == 2
\* cache_ttl_sec and meta_check_ttl_sec of the reader, in ticks
DocTtls == {1, 2}
MetaTtls == {1, 2}
\* None of Python, for an etag or a modifiedTime
NoTag == 0

NoCacheEntry ==
    [ present |-> FALSE, text |-> 0, fetched_at |-> 0, checked_at |-> 0,
      etag |-> NoTag, modified_time |-> NoTag ]
\* _CacheEntry(text=..., fetched_at=now, checked_at=now, etag=..., modified_time=...)
CacheEntry(text, t, etag, mtime) ==
    [ present |-> TRUE, text |-> text, fetched_at |-> t, checked_at |-> t,
      etag |-> etag, modified_time |-> mtime ]

\* a reader built with the given TTLs, no read in progress
NewReader(cache_ttl_sec, meta_check_ttl_sec) ==
    [ cache_ttl_sec |-> cache_ttl_sec, meta_check_ttl_sec |-> meta_check_ttl_sec,
      pc |-> "idle", branch |-> "none", now |-> 0, attempt |-> 0, reads |-> 0,
      calls |-> <<>>, found |-> NoCacheEntry, meta |-> <<NoTag, NoTag>>, text |-> 0,
      raised |-> "" ]

\* one call of the Drive API made by the read
DriveCall(op, branch, outcome, value) ==
    [op |-> op, branch |-> branch, outcome |-> outcome, value |-> value]

\* (etag and entry.etag and etag != entry.etag) or
\* (mtime and entry.modified_time and mtime != entry.modified_time)
DocChanged(e, etag, mtime) ==
    \/ etag /= NoTag /\ e.etag /= NoTag /\ etag /= e.etag
    \/ mtime /= NoTag /\ e.modified_time /= NoTag /\ mtime /= e.modified_time

MetaCheckCaught_Never(error) == FALSE
\* except Exception around the metadata check
MetaCheckCaught(error) == error \in Failures

\* steps 3 and 4 of read_text: the text TTL decides
TtlOnly(r, e) ==
    IF r.now - e.fetched_at >= r.cache_ttl_sec
    THEN [r EXCEPT !.pc = "export", !.branch = "expired"]
    ELSE [r EXCEPT !.pc = "returned", !.branch = "cached", !.text = e.text]

\* read_text up to its first call of the Drive API
EnterRead(r, t, e) ==
    LET fresh == [r EXCEPT !.now = t, !.calls = <<>>, !.found = e, !.text = 0,
                           !.meta = <<NoTag, NoTag>>, !.raised = ""]
    IN  IF ~e.present THEN [fresh EXCEPT !.pc = "export", !.branch = "first"]
        ELSE IF t - e.checked_at >= r.meta_check_ttl_sec
        THEN [fresh EXCEPT !.pc = "meta", !.branch = "check"]
        ELSE TtlOnly(fresh, e)

\* an error leaves read_text: the retry_async wrapper around it
ReadFails(r, error) ==
    IF ~Retried(error) \/ r.attempt = RETRIES_DEFAULT
    THEN [r EXCEPT !.pc = "raised", !.raised = error]
    ELSE [r EXCEPT !.pc = "sleep", !.raised = error]

DocTick ==
    /\ doc_clock < MaxDocTime
    /\ doc_clock' = doc_clock + 1
    /\ UNCHANGED <<_CACHE, drive, reading, notDocVars>>

\* the document is edited at Google Drive
DocEdited ==
    /\ drive < MaxVersions
    /\ drive' = drive + 1
    /\ UNCHANGED <<doc_clock, _CACHE, reading, notDocVars>>

\* a caller awaits read_text()
ReadText ==
    /\ reading.pc = "idle"
    /\ reading.reads < NumReads
    /\ reading' = EnterRead([reading EXCEPT !.attempt = 1, !.reads = @ + 1], doc_clock, _CACHE)
    /\ UNCHANGED <<doc_clock, _CACHE, drive, notDocVars>>

\* the backoff sleep of the wrapper ends: read_text runs again
ReadAgain ==
    /\ reading.pc = "sleep"
    /\ reading' = EnterRead([reading EXCEPT !.attempt = @ + 1], doc_clock, _CACHE)
    /\ UNCHANGED <<doc_clock, _CACHE, drive, notDocVars>>

\* await self._export_text(doc_id) returns the text or raises
ExportText(outcome) ==
    /\ reading.pc = "export"
    /\ LET r == [reading EXCEPT !.calls = Append(@, DriveCall("export", reading.branch, outcome,
                                                              IF outcome = "ok" THEN drive ELSE 0))]
       IN
       IF outcome = "ok"
       THEN IF reading.branch = "changed"
            THEN /\ _CACHE' = CacheEntry(drive, r.now, r.meta[1], r.meta[2])
                 /\ reading' = [r EXCEPT !.pc = "returned", !.text = drive]
            ELSE /\ reading' = [r EXCEPT !.pc = "meta", !.text = drive]
                 /\ UNCHANGED _CACHE
       ELSE /\ reading' = IF reading.branch = "changed" /\ MetaCheckCaught(outcome)
                          THEN TtlOnly(r, _CACHE) ELSE ReadFails(r, outcome)
            /\ UNCHANGED _CACHE
    /\ UNCHANGED <<doc_clock, drive, notDocVars>>

\* await self._get_doc_meta(doc_id) returns (etag, modifiedTime) or raises;
\* Drive may leave the etag out
GetDocMeta(outcome, with_etag) ==
    /\ reading.pc = "meta"
    /\ LET etag == IF with_etag THEN drive ELSE NoTag
           mtime == drive
           r == [reading EXCEPT !.calls = Append(@, DriveCall("meta", reading.branch, outcome, 0))]
           checked == [_CACHE EXCEPT !.checked_at = r.now]
       IN
       IF outcome = "ok"
       THEN IF reading.branch = "check"
            THEN IF DocChanged(_CACHE, etag, mtime)
                 THEN /\ _CACHE' = checked
                      /\ reading' = [r EXCEPT !.pc = "export", !.branch = "changed",
                                              !.meta = <<etag, mtime>>]
                 ELSE /\ _CACHE' = [checked EXCEPT
                                       !.etag = IF etag /= NoTag THEN etag ELSE @,
                                       !.modified_time = IF mtime /= NoTag THEN mtime ELSE @]
                      /\ reading' = TtlOnly(r, _CACHE)
            ELSE /\ _CACHE' = CacheEntry(r.text, r.now, etag, mtime)
                 /\ reading' = [r EXCEPT !.pc = "returned"]
       ELSE /\ reading' = IF reading.branch = "check" /\ MetaCheckCaught(outcome)
                          THEN TtlOnly(r, _CACHE) ELSE ReadFails([r EXCEPT !.text = 0], outcome)
            /\ UNCHANGED _CACHE
    /\ UNCHANGED <<doc_clock, drive, notDocVars>>

\* the caller has the text, or the error
ReadDone ==
    /\ reading.pc \in {"returned", "raised"}
    /\ reading' = [reading EXCEPT !.pc = "idle"]
    /\ UNCHANGED <<doc_clock, _CACHE, drive, notDocVars>>

DocOutcomes == {"ok"} \cup Failures

DocInit ==
    /\ doc_clock = 0
    /\ _CACHE = NoCacheEntry
    /\ drive = 1
    /\ \E cache_ttl_sec \in DocTtls, meta_check_ttl_sec \in MetaTtls :
          reading = NewReader(cache_ttl_sec, meta_check_ttl_sec)

DocNext ==
    \/ DocTick
    \/ DocEdited
    \/ ReadText
    \/ ReadAgain
    \/ \E outcome \in DocOutcomes : ExportText(outcome)
    \/ \E outcome \in DocOutcomes, with_etag \in BOOLEAN : GetDocMeta(outcome, with_etag)
    \/ ReadDone

\* the run of read_text has ended, by a return or by an error
ReadOver == reading.pc \in {"returned", "raised", "sleep", "idle"} /\ reading.attempt > 0
\* its metadata check raised
CheckFailed ==
    /\ reading.calls /= <<>>
    /\ reading.calls[1].branch = "check"
    /\ reading.calls[1].outcome \in Failures
TextFresh == reading.now - reading.found.fetched_at < reading.cache_ttl_sec

\* C32: when the metadata check of a cached template raises, the read goes
\* on as the text TTL alone decides: within the TTL it returns the cached
\* text with no further call and leaves the cache entry as it was; past the
\* TTL it exports the document again, and returns and stores the new text
\* when the export and its metadata call succeed; an error that leaves the
\* read is the error of one of those two calls, never that of the check.
C32_MetaFailureFallsBack ==
    (ReadOver /\ CheckFailed) =>
        LET n == Len(reading.calls)
            last == reading.calls[n]
        IN
        IF TextFresh
        THEN /\ n = 1
             /\ reading.raised = ""
             /\ reading.text = reading.found.text
             /\ _CACHE = reading.found
        ELSE /\ n >= 2
             /\ reading.calls[2].op = "export"
             /\ reading.calls[2].branch = "expired"
             /\ IF reading.raised = ""
                THEN /\ n = 3
                     /\ reading.text = reading.calls[2].value
                     /\ _CACHE.text = reading.text
                     /\ _CACHE.fetched_at = reading.now
                ELSE /\ last.branch = "expired"
                     /\ last.outcome = reading.raised
                     /\ _CACHE = reading.found

C32_Witness ==
    /\ reading.pc = "returned"
    /\ CheckFailed
    /\ TextFresh
    /\ reading.text = reading.found.text
    /\ drive /= reading.text

(***************************************************************************)
(* Specifications                                                          *)
(***************************************************************************)
OnbIdle == peak = 0 /\ turns = 0 /\ answered = 0
TrimIdle == trimmed_from = <<>>
CacheIdle ==
    /\ clock = 0 /\ redis_up = FALSE /\ _redis = FALSE /\ kv = <<>> /\ masters_lock = <<>>
    /\ origin = <<>> /\ lookups = <<>> /\ refresh = <<>>

ResIdle ==
    /\ _instance = 0 /\ res_lock = 0 /\ models_reg = <<>> /\ resources = <<>>
    /\ performed = <<>> /\ inits = <<>>

LoopIdle == retry = <<>> /\ mcp = <<>>

AccIdle == tools_args = Unset /\ tools_name = Unset /\ tokens = NoTokens

DocIdle == doc_clock = 0 /\ _CACHE = <<>> /\ drive = 0 /\ reading = <<>>

CloseIdle == closing = <<>>

RegIdle == RegInit /\ settings = [graph_cache_ttl_s |-> 0, graph_cache_force_reload |-> FALSE]

InitRegistry == RegInit /\ ToolIdle /\ BeforeIdle /\ SelectIdle /\ OnbIdle /\ TrimIdle /\ CacheIdle /\ ResIdle /\ LoopIdle /\ AccIdle /\ DocIdle /\ CloseIdle
SpecRegistry == InitRegistry /\ [][RegNext]_vars

InitTool == ToolInit /\ RegIdle /\ BeforeIdle /\ SelectIdle /\ OnbIdle /\ TrimIdle /\ CacheIdle /\ ResIdle /\ LoopIdle /\ AccIdle /\ DocIdle /\ CloseIdle
SpecTool == InitTool /\ [][ToolNext]_vars

InitBefore == BeforeInit /\ RegIdle /\ SelectIdle /\ OnbIdle /\ TrimIdle /\ CacheIdle /\ ResIdle /\ LoopIdle /\ AccIdle /\ DocIdle /\ CloseIdle
SpecBefore == InitBefore /\ [][BeforeNext]_vars

InitSelect == SelectInit /\ RegIdle /\ OnbIdle /\ TrimIdle /\ CacheIdle /\ ResIdle /\ LoopIdle /\ AccIdle /\ DocIdle /\ CloseIdle
SpecSelect == InitSelect /\ [][SelectNext]_vars

InitThread == OnbInit /\ RegIdle /\ TrimIdle /\ CacheIdle /\ ResIdle /\ LoopIdle /\ AccIdle /\ DocIdle /\ CloseIdle
SpecThread == InitThread /\ [][OnbNext]_vars

InitTrim == TrimInit /\ RegIdle /\ ToolIdle /\ SelectIdle /\ OnbIdle /\ CacheIdle /\ ResIdle /\ LoopIdle /\ AccIdle /\ DocIdle /\ CloseIdle
SpecTrim == InitTrim /\ [][TrimNext]_vars

InitMasters == MastersInit /\ RegIdle /\ ToolIdle /\ BeforeIdle /\ SelectIdle /\ OnbIdle /\ TrimIdle /\ ResIdle /\ LoopIdle /\ AccIdle /\ DocIdle /\ CloseIdle
SpecMasters == InitMasters /\ [][MastersNext]_vars

InitResourcesSpec ==
    ResInit /\ RegIdle /\ ToolIdle /\ BeforeIdle /\ SelectIdle /\ OnbIdle /\ TrimIdle /\ CacheIdle
        /\ LoopIdle /\ AccIdle /\ DocIdle /\ CloseIdle
SpecResources == InitResourcesSpec /\ [][ResNext]_vars

InitLoops ==
    LoopInit /\ RegIdle /\ ToolIdle /\ BeforeIdle /\ SelectIdle /\ OnbIdle /\ TrimIdle /\ CacheIdle
        /\ ResIdle /\ AccIdle /\ DocIdle /\ CloseIdle
SpecLoops == InitLoops /\ [][LoopNext]_vars

InitRun ==
    RunInit /\ RegIdle /\ OnbIdle /\ TrimIdle /\ CacheIdle /\ ResIdle /\ LoopIdle /\ DocIdle /\ CloseIdle
SpecRun == InitRun /\ [][RunNext]_vars

InitSurvey == SurveyInit /\ RegIdle /\ TrimIdle /\ CacheIdle /\ ResIdle /\ LoopIdle /\ AccIdle /\ DocIdle /\ CloseIdle
SpecSurvey == InitSurvey /\ [][SurveyNext]_vars

InitDoc ==
    DocInit /\ RegIdle /\ ToolIdle /\ BeforeIdle /\ SelectIdle /\ OnbIdle /\ TrimIdle /\ CacheIdle
        /\ ResIdle /\ LoopIdle /\ AccIdle /\ CloseIdle
SpecDoc == InitDoc /\ [][DocNext]_vars

InitMemChannels ==
    MemChannelsInit /\ RegIdle /\ ToolIdle /\ BeforeIdle /\ SelectIdle /\ OnbIdle /\ TrimIdle
        /\ ResIdle /\ LoopIdle /\ AccIdle /\ DocIdle /\ CloseIdle
SpecMemChannels == InitMemChannels /\ [][MemChannelsNext]_vars

InitSaves ==
    SavesInit /\ RegIdle /\ ToolIdle /\ BeforeIdle /\ SelectIdle /\ OnbIdle /\ TrimIdle /\ CacheIdle
        /\ ResIdle /\ AccIdle /\ DocIdle /\ CloseIdle
SpecSaves == InitSaves /\ [][SavesNext]_vars

InitResClose ==
    ResCloseInit /\ RegIdle /\ ToolIdle /\ BeforeIdle /\ SelectIdle /\ OnbIdle /\ TrimIdle /\ CacheIdle
        /\ LoopIdle /\ AccIdle /\ DocIdle
SpecResClose == InitResClose /\ [][ResCloseNext]_vars

InitFunnel ==
    FunnelInit /\ RegIdle /\ OnbIdle /\ TrimIdle /\ CacheIdle /\ ResIdle /\ LoopIdle
        /\ AccIdle /\ DocIdle /\ CloseIdle
SpecFunnel == InitFunnel /\ [][FunnelNext]_vars

====
